---- MODULE Spec2Model ----
(***************************************************************************)
(* The observability subsystem of eDEX-UI: the rotating, leveled Logger,   *)
(* the ErrorTracker and the PerformanceMonitor, as state machines.         *)
(*                                                                         *)
(* Sizes are counted in log records (one appended record = RecordSize).    *)
(* A log entry is a mapping from field names to strings, as the object     *)
(* literal built by formatMessage.                                         *)
(***************************************************************************)
EXTENDS Integers, Sequences, FiniteSets, TLC

VARIABLES
    cfg,          \* rotation settings the application passes to initialize
    globalLogger, \* the module-level `globalLogger` (NoLogger = null)
    handle,       \* the last handle returned by createLogger (NoLogger = none)
    fs,           \* the log directory: dir, active file, generations
    last,         \* outcome of the last logger operation
    tracker,      \* the ErrorTracker instance
    trackLog,     \* history: every record tracked since the last clearErrors
    now,          \* Date.now()
    mon,          \* the PerformanceMonitor instance
    loop,         \* the event loop: live interval timers, pending frame callbacks
    recorded,     \* history: every sample pushed, per series
    ret,          \* what the last call returned to its caller, or raised
    asyncs,       \* measureAsync invocations suspended at their await
    health,       \* the HealthCheckSystem instance
    heap,         \* the module objects registerModule created, by reference
    calls,        \* checkModule invocations and getStatus runs suspended at their await
    healthLog,    \* history: per module object, the checks settled and what the last one did
    globals       \* the module-level singletons, every instance constructed, window, process,
                  \* performance

vars == <<cfg, globalLogger, handle, fs, last, tracker, trackLog, now, mon, loop, recorded,
          ret, asyncs, health, heap, calls, healthLog, globals>>

loggerVars == <<cfg, globals, globalLogger, handle, fs, last>>
trackerVars == <<tracker, trackLog, now>>
monitorVars == <<mon, loop, recorded>>
callVars == <<ret, asyncs>>
healthVars == <<health, heap, calls, healthLog>>

----------------------------------------------------------------------------
(* Bounds *)

MaxLogSizeCfg == 1      \* maxLogSize is configured in 1..MaxLogSizeCfg
MaxLogFilesCfg == 3     \* maxLogFiles is configured in 1..MaxLogFilesCfg
MaxRotations == 3       \* rotations per behaviour
MaxFaultStep == 3       \* a fault hits one of the first MaxFaultStep fs calls of an operation
MaxErrorsCfg == 2       \* maxErrors is configured in 1..MaxErrorsCfg
MaxTrackCalls == 7      \* tracker operations per behaviour
MaxSamplesCfg == 2      \* maxSamples is configured in 1..MaxSamplesCfg
MaxRecords == 3         \* samples pushed per behaviour
MaxMonitorLogs == 2     \* records the monitor's logger appends per behaviour
MaxPerfTime == 1000     \* the clock stops at this many milliseconds
MaxQueryCalls == 11     \* trackError calls before a query
MaxStatsLen == 21       \* length of the series given to calculateStats
MaxMeasures == 2        \* measure and measureAsync invocations per behaviour
MaxTimers == 4          \* interval timers, and frame callbacks, alive at once
MaxRegistrations == 2   \* registerModule calls per behaviour
MaxChecks == 3          \* invocations of a health predicate by checkModule per behaviour
MaxRunChecks == 2       \* invocations of health predicates per behaviour, with runs
MaxCalls == 2           \* checkModule invocations in flight at once
MaxRegistryLogs == 3    \* records the registry's logger appends per behaviour
MaxDelivered == 3       \* records the global handlers have appended before a failure is delivered
MaxTimerLogs == 5       \* records appended per behaviour where the periodic timer is set
MaxInstances == 3       \* singleton instances constructed per behaviour
MaxStarts == 2          \* ErrorTracker.start calls per behaviour
MaxMarks == 3           \* performance marks per behaviour
MaxBetween == 2         \* measures on the performance timeline
MaxFrameTime == 2500    \* the clock of the frame specifications stops at this many milliseconds
MaxFrames == 3          \* frames counted between two fps samples

----------------------------------------------------------------------------
(* Values *)

Undefined == 0 - 1                     \* a numeric option left out of the config
UndefinedOutputs == {"<undefined>"}  \* config.outputs left out
NoFile == 0 - 1                     \* size of a file that does not exist
Circular == "<circular>"             \* a metadata value JSON.stringify rejects
RecordSize == 1

ERROR == 0
WARN == 1
INFO == 2
DEBUG == 3
TRACE == 4

LogLevel == [ERROR |-> ERROR, WARN |-> WARN, INFO |-> INFO, DEBUG |-> DEBUG, TRACE |-> TRACE]

LogLevelNames == <<"ERROR", "WARN", "INFO", "DEBUG", "TRACE">>

Levels == {ERROR, WARN, INFO, DEBUG, TRACE}

DefaultMaxLogSize == 10 * 1024 * 1024
DefaultMaxLogFiles == 5

StandardFields == {"timestamp", "level", "module", "message"}

\* a Logger object is its fields, plus `asked`: the config.level it was constructed with
NoLogger == [level |-> Undefined, module |-> "", outputs |-> {}, maxLogSize |-> 0, maxLogFiles |-> 0,
             asked |-> Undefined]

EmptyMeta == [k \in {} |-> ""]

\* no singleton constructed: `let globalLogger = null` and the three like it
\* as are the global objects `window` and `process` with their listeners
NoSurface == [exists |-> FALSE, listeners |-> <<>>]

\* and the global `performance` with the marks and measures of its timeline
NoTimeline == [marks |-> <<>>, measures |-> <<>>]

NoGlobals == [logger |-> 0, tracker |-> 0, monitor |-> 0, healthCheck |-> 0, objects |-> <<>>,
              window |-> NoSurface, process |-> NoSurface, performance |-> NoTimeline]

NoReturn == [op |-> "none"]            \* the last call returned undefined
UndefinedText == "<undefined>"         \* a property whose value is undefined

\* the `a || b` of the constructor, on numbers: 0 and undefined are falsy
NumOr(x, d) == IF x = Undefined \/ x = 0 THEN d ELSE x

\* `config.module || 'app'`: undefined and the empty string are falsy
ModuleOr(m) == IF m = "" THEN "app" ELSE m

\* `config.outputs || ['console']`: only undefined is falsy, [] is kept
OutputsOr(o) == IF o = UndefinedOutputs THEN {"console"} ELSE o

Put(f, k, v) == [x \in (DOMAIN f) \cup {k} |-> IF x = k THEN v ELSE f[x]]

Remove(f, k) == [x \in (DOMAIN f) \ {k} |-> f[x]]

\* new Date().toISOString() at clock reading t
ToISOString(t) == "1970-01-01T00:00:00.00" \o ToString(t) \o "Z"

----------------------------------------------------------------------------
(* Filesystem calls.  k counts down to the call that throws: k = 1 means    *)
(* this call throws, k = 0 means no call throws.                            *)

Fails(k) == k = 1

After(k) == IF k = 0 THEN 0 ELSE k - 1

Thrown(f, k) == [fs |-> f, k |-> k, raised |-> TRUE, rotated |-> FALSE]

Done(f, k, rot) == [fs |-> f, k |-> k, raised |-> FALSE, rotated |-> rot]

ensureLogDirectory(f, k) ==
    IF f.dir THEN Done(f, k, FALSE)
    ELSE IF Fails(k) THEN Thrown(f, k)
    ELSE Done([f EXCEPT !.dir = TRUE], After(k), FALSE)

\* the loop `for (i = maxLogFiles - 1; i > 0; i--)` of rotateLogs, from i down
RECURSIVE shiftGenerations(_, _, _, _)
shiftGenerations(i, maxLogFiles, f, k) ==
    IF i <= 0 THEN Done(f, k, FALSE)
    ELSE IF i \notin DOMAIN f.gens THEN shiftGenerations(i - 1, maxLogFiles, f, k)
    ELSE IF Fails(k) THEN Thrown(f, k)
    ELSE IF i = maxLogFiles - 1
         THEN shiftGenerations(i - 1, maxLogFiles,
                               [f EXCEPT !.gens = Remove(f.gens, i)], After(k))
         ELSE shiftGenerations(i - 1, maxLogFiles,
                               [f EXCEPT !.gens = Put(Remove(f.gens, i), i + 1, f.gens[i])],
                               After(k))

\* rotateLogs copying the active file to generation 1 instead of renaming it
rotateLogsByCopy(logger, f, k) ==
    IF f.active = NoFile THEN Done(f, k, FALSE)
    ELSE IF Fails(k) THEN Thrown(f, k)
    ELSE IF ~(f.active > logger.maxLogSize) THEN Done(f, After(k), FALSE)
    ELSE LET s == shiftGenerations(logger.maxLogFiles - 1, logger.maxLogFiles, f, After(k))
         IN  IF s.raised THEN s
             ELSE IF Fails(s.k) THEN Thrown(s.fs, s.k)
             ELSE Done([s.fs EXCEPT !.gens = Put(s.fs.gens, 1,
                                        [size |-> s.fs.active, rot |-> s.fs.rotations + 1]),
                                    !.rotations = s.fs.rotations + 1],
                       After(s.k), TRUE)

\* rotateLogs numbering generations by recency: the newest takes the next number
rotateLogsNumberingUp(logger, f, k) ==
    IF f.active = NoFile THEN Done(f, k, FALSE)
    ELSE IF Fails(k) THEN Thrown(f, k)
    ELSE IF ~(f.active > logger.maxLogSize) THEN Done(f, After(k), FALSE)
    ELSE IF Fails(After(k)) THEN Thrown(f, After(k))
    ELSE Done([f EXCEPT !.gens = Put(f.gens, f.rotations + 1,
                                     [size |-> f.active, rot |-> f.rotations + 1]),
                        !.active = NoFile,
                        !.rotations = f.rotations + 1],
              After(After(k)), TRUE)

rotateLogs(logger, f, k) ==
    IF f.active = NoFile THEN Done(f, k, FALSE)
    ELSE IF Fails(k) THEN Thrown(f, k)                      \* statSync
    ELSE IF ~(f.active > logger.maxLogSize) THEN Done(f, After(k), FALSE)
    ELSE LET s == shiftGenerations(logger.maxLogFiles - 1, logger.maxLogFiles, f, After(k))
         IN  IF s.raised THEN s
             ELSE IF Fails(s.k) THEN Thrown(s.fs, s.k)      \* renameSync to .1
             ELSE Done([s.fs EXCEPT !.gens = Put(s.fs.gens, 1,
                                        [size |-> s.fs.active, rot |-> s.fs.rotations + 1]),
                                    !.active = NoFile,
                                    !.rotations = s.fs.rotations + 1],
                       After(s.k), TRUE)

\* new Logger(config): the fields, then ensureLogDirectory, then rotateLogs
Logger(config, f, k) ==
    LET this == [level |-> NumOr(config.level, INFO),
                 module |-> ModuleOr(config.module),
                 outputs |-> OutputsOr(config.outputs),
                 maxLogSize |-> NumOr(config.maxLogSize, DefaultMaxLogSize),
                 maxLogFiles |-> NumOr(config.maxLogFiles, DefaultMaxLogFiles),
                 asked |-> config.level]
        d == ensureLogDirectory(f, k)
        r == rotateLogs(this, d.fs, d.k)
    IN  IF d.raised
        THEN [logger |-> NoLogger, fs |-> d.fs, k |-> d.k, raised |-> TRUE,
              rotated |-> FALSE, checked |-> FALSE]
        ELSE [logger |-> IF r.raised THEN NoLogger ELSE this,
              fs |-> r.fs, k |-> r.k, raised |-> r.raised,
              rotated |-> r.rotated, checked |-> ~r.raised]

child(this, moduleName, f, k) ==
    Logger([level |-> this.level, module |-> moduleName, outputs |-> this.outputs,
            maxLogSize |-> this.maxLogSize, maxLogFiles |-> this.maxLogFiles], f, k)

----------------------------------------------------------------------------
(* Formatting and writing *)

formatMessage(this, level, message, meta, t) ==
    LET std == [timestamp |-> ToISOString(t), level |-> LogLevelNames[level + 1],
                module |-> this.module, message |-> message]
    IN  [key \in StandardFields \cup (DOMAIN meta) |->
            IF key \in DOMAIN meta THEN meta[key] ELSE std[key]]

Colors == [ERROR |-> "red", WARN |-> "yellow", INFO |-> "cyan", DEBUG |-> "gray", TRACE |-> "white"]

\* the keys left in `meta` after the four deletes, when the entry has more than 4 keys
ConsoleRest(logEntry) ==
    IF Cardinality(DOMAIN logEntry) > 4 THEN (DOMAIN logEntry) \ StandardFields ELSE {}

\* JSON.stringify throws on a circular value
StringifyThrows(obj, keys) == \E key \in keys : obj[key] = Circular

\* JSON.stringify leaves out the properties whose value is undefined
JSONstringify(obj, keys) == [key \in {k \in keys : obj[k] # UndefinedText} |-> obj[key]]

formatForConsole(logEntry) ==
    [color |-> IF logEntry.level \in DOMAIN Colors THEN Colors[logEntry.level] ELSE "",
     timestamp |-> logEntry.timestamp, level |-> logEntry.level,
     module |-> logEntry.module, message |-> logEntry.message,
     rest |-> JSONstringify(logEntry, ConsoleRest(logEntry))]

formatForFile(logEntry) == [json |-> JSONstringify(logEntry, DOMAIN logEntry)]

ConsoleStream(level) == IF level = ERROR THEN "error" ELSE IF level = WARN THEN "warn" ELSE "log"

NoOutput(f) == [raised |-> FALSE, console |-> <<>>, file |-> <<>>, fallback |-> <<>>, fs |-> f]

\* Logger.write; appendFails: fs.appendFileSync throws
write(this, level, message, meta, t, f, appendFails) ==
    IF level > this.level THEN NoOutput(f)
    ELSE
      LET logEntry == formatMessage(this, level, message, meta, t)
          toConsole == "console" \in this.outputs
          toFile == "file" \in this.outputs
          consoleThrows == toConsole /\ StringifyThrows(logEntry, ConsoleRest(logEntry))
          console == IF toConsole /\ ~consoleThrows
                     THEN << [stream |-> ConsoleStream(level), line |-> formatForConsole(logEntry)] >>
                     ELSE <<>>
      IN  IF consoleThrows THEN [NoOutput(f) EXCEPT !.raised = TRUE]
          ELSE IF ~toFile THEN [NoOutput(f) EXCEPT !.console = console]
          ELSE IF StringifyThrows(logEntry, DOMAIN logEntry)
               THEN [NoOutput(f) EXCEPT !.console = console, !.raised = TRUE]
          ELSE IF appendFails \/ ~f.dir
               THEN [NoOutput(f) EXCEPT !.console = console,
                                        !.fallback = << "Failed to write to log file:" >>]
          ELSE [raised |-> FALSE, console |-> console,
                file |-> << formatForFile(logEntry) >>, fallback |-> <<>>,
                fs |-> [f EXCEPT !.active = (IF f.active = NoFile THEN 0 ELSE f.active) + RecordSize]]

----------------------------------------------------------------------------
(* Inputs of the logger operations *)

MaxActiveSize == MaxLogSizeCfg + 1   \* writes stop once the active file is this large

Messages == {"Terminal initialized"}

Metas == {EmptyMeta,
          [cols |-> "80"],
          [message |-> "Connection lost", count |-> "1"],
          [ref |-> Circular]}

LevelInputs == {Undefined} \cup Levels

OutputInputs == {UndefinedOutputs, {"file"}, {"console", "file"}}

EnvLogLevels == {"", "error", "Debug"}   \* process.env.LOG_LEVEL; "" is unset

NoFault == {0}

Faults == 0..MaxFaultStep

toUpperCase(s) ==
    CASE s = "error" -> "ERROR"
      [] s = "Error" -> "ERROR"
      [] s = "warn" -> "WARN"
      [] s = "Warn" -> "WARN"
      [] s = "info" -> "INFO"
      [] s = "Info" -> "INFO"
      [] s = "Debug" -> "DEBUG"
      [] s = "debug" -> "DEBUG"
      [] s = "trace" -> "TRACE"
      [] s = "Trace" -> "TRACE"
      [] OTHER -> s

\* `LogLevel[name]`: undefined for a name that is not a level
LogLevelOf(name) == IF name \in DOMAIN LogLevel THEN LogLevel[name] ELSE Undefined

\* the config object getLogger passes to the constructor
DefaultConfig(envLogLevel, production) ==
    [level |-> IF envLogLevel # "" THEN LogLevelOf(toUpperCase(envLogLevel)) ELSE INFO,
     module |-> "",
     outputs |-> IF production THEN {"file"} ELSE {"console", "file"},
     maxLogSize |-> Undefined,
     maxLogFiles |-> Undefined]

\* getLogger(): the global logger, constructed on first use
getLoggerCall(g, envLogLevel, production, f, k) ==
    IF g = NoLogger
    THEN Logger(DefaultConfig(envLogLevel, production), f, k)
    ELSE [logger |-> g, fs |-> f, k |-> k, raised |-> FALSE, rotated |-> FALSE, checked |-> FALSE]

\* checked: a rotation check ran to completion; rotated: it rotated the active file
Outcome(op, raised, rotated, checked, logger) ==
    [op |-> op, raised |-> raised, rotated |-> rotated, checked |-> checked, logger |-> logger,
     level |-> Undefined, message |-> "", meta |-> EmptyMeta, t |-> 0,
     console |-> <<>>, file |-> <<>>, fallback |-> <<>>]

WriteOutcome(this, level, message, meta, t, w) ==
    [op |-> "log", raised |-> w.raised, rotated |-> FALSE, checked |-> FALSE, logger |-> this,
     level |-> level, message |-> message, meta |-> meta, t |-> t,
     console |-> w.console, file |-> w.file, fallback |-> w.fallback]

\* a construction that would rotate needs rotation budget
RotationBudget ==
    (fs.active # NoFile /\ fs.active > NumOr(cfg.maxLogSize, DefaultMaxLogSize))
        => fs.rotations < MaxRotations

----------------------------------------------------------------------------
(* Logger operations.  Each takes the sets its inputs are drawn from.       *)

InitLogger(sizes, files) ==
    /\ cfg \in [maxLogSize : sizes, maxLogFiles : files]
    /\ globals = NoGlobals
    /\ globalLogger = NoLogger
    /\ handle = NoLogger
    /\ fs = [dir |-> FALSE, active |-> NoFile, gens |-> [i \in {} |-> 0], rotations |-> 0]
    /\ last = Outcome("none", FALSE, FALSE, FALSE, NoLogger)

initialize(levelSet, outputSet, faultSet) ==
    \E level \in levelSet, outputs \in outputSet, k \in faultSet :
        LET n == Logger([level |-> level, module |-> "", outputs |-> outputs,
                         maxLogSize |-> cfg.maxLogSize, maxLogFiles |-> cfg.maxLogFiles], fs, k)
        IN  /\ RotationBudget
            /\ globalLogger' = IF n.raised THEN globalLogger ELSE n.logger
            /\ fs' = n.fs
            /\ last' = Outcome("initialize", n.raised, n.rotated, n.checked, n.logger)
            /\ UNCHANGED <<cfg, globals, handle>>

getLogger(envSet, prodSet, faultSet) ==
    \E envLogLevel \in envSet, production \in prodSet, k \in faultSet :
        LET n == getLoggerCall(globalLogger, envLogLevel, production, fs, k)
        IN  /\ RotationBudget
            /\ globalLogger' = IF n.raised THEN globalLogger ELSE n.logger
            /\ fs' = n.fs
            /\ last' = Outcome("getLogger", n.raised, n.rotated, n.checked, n.logger)
            /\ UNCHANGED <<cfg, globals, handle>>

createLogger(moduleSet, envSet, prodSet, faultSet) ==
    \E moduleName \in moduleSet, envLogLevel \in envSet, production \in prodSet,
       k \in faultSet :
        LET g == getLoggerCall(globalLogger, envLogLevel, production, fs, k)
            c == child(g.logger, moduleName, g.fs, g.k)
        IN  /\ RotationBudget
            /\ globalLogger' = IF g.raised THEN globalLogger ELSE g.logger
            /\ IF g.raised
               THEN /\ fs' = g.fs
                    /\ handle' = handle
                    /\ last' = Outcome("createLogger", TRUE, FALSE, FALSE, NoLogger)
               ELSE /\ fs' = c.fs
                    /\ handle' = IF c.raised THEN handle ELSE c.logger
                    /\ last' = Outcome("createLogger", c.raised, g.rotated \/ c.rotated, c.checked, c.logger)
            /\ UNCHANGED <<cfg, globals>>

\* the variant in which every write checks for rotation first
logRotating(loggers, levelSet, metaSet, appendSet) ==
    \E this \in loggers \ {NoLogger}, level \in levelSet,
       message \in Messages, meta \in metaSet, appendFails \in appendSet :
        LET r == rotateLogs(this, fs, 0)
            w == write(this, level, message, meta, 1, r.fs, appendFails)
        IN  /\ fs.active <= MaxActiveSize
            /\ RotationBudget
            /\ fs' = w.fs
            /\ last' = WriteOutcome(this, level, message, meta, 1, w)
            /\ UNCHANGED <<cfg, globals, globalLogger, handle>>

\* error / warn / info / debug / trace on one of the loggers the caller holds
log(loggers, levelSet, metaSet, appendSet) ==
    \E this \in loggers \ {NoLogger}, level \in levelSet,
       message \in Messages, meta \in metaSet, appendFails \in appendSet :
        LET w == write(this, level, message, meta, 1, fs, appendFails)
        IN  /\ fs.active < MaxActiveSize
            /\ fs' = w.fs
            /\ last' = WriteOutcome(this, level, message, meta, 1, w)
            /\ UNCHANGED <<cfg, globals, globalLogger, handle>>

----------------------------------------------------------------------------
(* ErrorTracker.  errorCounts, a Map, is the sequence of its entries in      *)
(* insertion order.                                                         *)

DefaultMaxErrors == 100
TopErrorsCount == 5
RecentErrorsCount == 10

Min(a, b) == IF a < b THEN a ELSE b

Last(seq, n) == SubSeq(seq, Len(seq) - Min(n, Len(seq)) + 1, Len(seq))

\* new ErrorTracker(config); config.enabled is "true", "false" or "undefined"
ErrorTracker(config) ==
    [enabled |-> config.enabled # "false",
     maxErrors |-> NumOr(config.maxErrors, DefaultMaxErrors),
     errors |-> <<>>,
     errorCounts |-> <<>>]

\* Map.get: undefined for a key that is not in the map
MapGet(map, key) ==
    IF \E i \in DOMAIN map : map[i].message = key
    THEN map[CHOOSE i \in DOMAIN map : map[i].message = key].count
    ELSE Undefined

\* Map.set: a known key keeps its place, a new key goes last
MapSet(map, key, value) ==
    IF \E i \in DOMAIN map : map[i].message = key
    THEN [i \in DOMAIN map |-> IF map[i].message = key
                                THEN [message |-> key, count |-> value] ELSE map[i]]
    ELSE Append(map, [message |-> key, count |-> value])

\* a property of `context` if it has it (the spread comes last), else the value given
Spread(context, key, value) == IF key \in DOMAIN context THEN context[key] ELSE value

ErrorRecordFields == {"timestamp", "message", "stack", "type"}

\* the errorRecord literal of trackError; error.message, error.type and
\* error.stack are "" when the value thrown has no such property
errorRecord(error, context, time) ==
    [timestamp |-> time,
     message |-> Spread(context, "message",
                        IF error.message # "" THEN error.message ELSE error.string),
     stack |-> Spread(context, "stack", error.stack),
     type |-> Spread(context, "type", IF error.type # "" THEN error.type ELSE "error"),
     extra |-> [key \in (DOMAIN context) \ ErrorRecordFields |-> context[key]]]

\* trackError evicting the newest record on overflow
trackErrorPop(this, error, context, time) ==
    IF ~this.enabled THEN this
    ELSE
      LET rec == errorRecord(error, context, time)
          pushed == Append(this.errors, rec)
          count == NumOr(MapGet(this.errorCounts, rec.message), 0) + 1
      IN  [this EXCEPT
             !.errors = IF Len(pushed) > this.maxErrors
                        THEN SubSeq(pushed, 1, Len(pushed) - 1) ELSE pushed,
             !.errorCounts = MapSet(this.errorCounts, rec.message, count)]

\* trackError storing 1 instead of the incremented count
trackErrorNoIncrement(this, error, context, time) ==
    IF ~this.enabled THEN this
    ELSE
      LET rec == errorRecord(error, context, time)
          pushed == Append(this.errors, rec)
      IN  [this EXCEPT
             !.errors = IF Len(pushed) > this.maxErrors THEN Tail(pushed) ELSE pushed,
             !.errorCounts = MapSet(this.errorCounts, rec.message, 1)]

\* the tracker after trackError(error, context) (its logger call is in the action)
trackErrorCall(this, error, context, time) ==
    IF ~this.enabled THEN this
    ELSE
      LET rec == errorRecord(error, context, time)
          pushed == Append(this.errors, rec)
          count == NumOr(MapGet(this.errorCounts, rec.message), 0) + 1
      IN  [this EXCEPT
             !.errors = IF Len(pushed) > this.maxErrors THEN Tail(pushed) ELSE pushed,
             !.errorCounts = MapSet(this.errorCounts, rec.message, count)]

\* Array.prototype.sort((a, b) => b[1] - a[1]): descending by count, stable
RECURSIVE sortByCount(_)
sortByCount(entries) ==
    IF entries = <<>> THEN <<>>
    ELSE LET n == Len(entries)
             e == entries[n]
             front == sortByCount(SubSeq(entries, 1, n - 1))
             \* e goes after every entry whose count is at least its own
             keep == Cardinality({i \in DOMAIN front : front[i].count >= e.count})
         IN  SubSeq(front, 1, keep) \o <<e>> \o SubSeq(front, keep + 1, Len(front))

getErrorSummary(this) ==
    [totalErrors |-> Len(this.errors),
     recentErrors |-> Last(this.errors, RecentErrorsCount),
     topErrors |-> SubSeq(sortByCount(this.errorCounts), 1,
                          Min(TopErrorsCount, Len(this.errorCounts)))]

\* the values passed to trackError: the i-th is an Error, an error-event
\* description or a thrown string, with message "E<i>"
MessageOf(i) == "E" \o ToString(i)

ErrorValue(i) ==
    CASE i % 3 = 1 -> [message |-> MessageOf(i), string |-> "Error: " \o MessageOf(i),
                       stack |-> "at riskyOperation", type |-> ""]
      [] i % 3 = 2 -> [message |-> MessageOf(i), string |-> "[object Object]",
                       stack |-> "at process", type |-> "uncaught-exception"]
      [] OTHER     -> [message |-> "", string |-> MessageOf(i), stack |-> "", type |-> ""]

ContextValue(i) == IF i % 3 = 1 THEN [module |-> "terminal"] ELSE EmptyMeta

InitTracker ==
    /\ tracker \in {ErrorTracker([enabled |-> e, maxErrors |-> m]) :
                        e \in {"undefined", "false"}, m \in 1..MaxErrorsCfg}
    /\ trackLog = <<>>
    /\ now = 0

\* trackError(ErrorValue(i), ContextValue(i)); one millisecond passes per call.
\* A message not tracked since the last clearErrors is the next of the list;
\* a message tracked before is one of the `recent` last introduced.
trackErrorIn(recent, limit) ==
    \E i \in 1..limit :
        LET rec == errorRecord(ErrorValue(i), ContextValue(i), now)
            next == trackErrorCall(tracker, ErrorValue(i), ContextValue(i), now)
            meta == [type |-> rec.type, message |-> rec.message,
                     count |-> ToString(MapGet(next.errorCounts, rec.message))]
            w == write(handle, ERROR, "Error tracked", meta, now, fs, FALSE)
        IN  /\ handle # NoLogger
            /\ now < limit
            /\ i <= Len(tracker.errorCounts) + 1
            /\ i + recent > Len(tracker.errorCounts)
            /\ tracker' = next
            /\ IF tracker.enabled
               THEN /\ trackLog' = Append(trackLog, rec)
                    /\ now' = now + 1
                    /\ fs' = w.fs
                    /\ last' = WriteOutcome(handle, ERROR, "Error tracked", meta, now, w)
               ELSE UNCHANGED <<trackLog, now, fs, last>>
            /\ UNCHANGED <<cfg, globals, globalLogger, handle>>

trackError == trackErrorIn(MaxTrackCalls, MaxTrackCalls)

clearErrors ==
    LET w == write(handle, INFO, "Error history cleared", EmptyMeta, now, fs, FALSE)
    IN  /\ handle # NoLogger
        /\ now < MaxTrackCalls
        /\ tracker' = [tracker EXCEPT !.errors = <<>>, !.errorCounts = <<>>]
        /\ trackLog' = <<>>
        /\ now' = now + 1
        /\ fs' = w.fs
        /\ last' = WriteOutcome(handle, INFO, "Error history cleared", EmptyMeta, now, w)
        /\ UNCHANGED <<cfg, globals, globalLogger, handle>>

\* getErrors(filter); a filter field left out is Undefined ("" for the type)
getErrors(this, filter) ==
    LET hasType(e) == e.type = filter.type
        isSince(e) == e.timestamp >= filter.since
        byType == IF filter.type # "" THEN SelectSeq(this.errors, hasType) ELSE this.errors
        bySince == IF filter.since # Undefined /\ filter.since # 0
                   THEN SelectSeq(byType, isSince) ELSE byType
    IN  IF filter.limit # Undefined /\ filter.limit # 0
        THEN Last(bySince, filter.limit) ELSE bySince

Filters == [type : {"", "uncaught-exception"}, since : {Undefined, 3}, limit : {Undefined, 0, 2}]

getErrorsCall ==
    \E filter \in Filters :
        /\ ret' = [op |-> "getErrors", filter |-> filter, value |-> getErrors(tracker, filter)]
        /\ UNCHANGED <<loggerVars, trackerVars, monitorVars, asyncs, healthVars>>

getErrorSummaryCall ==
    /\ ret' = [op |-> "getErrorSummary", value |-> getErrorSummary(tracker)]
    /\ UNCHANGED <<loggerVars, trackerVars, monitorVars, asyncs, healthVars>>

----------------------------------------------------------------------------
(* PerformanceMonitor.  metrics.custom maps the names recorded so far to     *)
(* their series; rafId 0 is "no frame requested".                           *)

DefaultSampleInterval == 1000
DefaultMaxSamples == 300
FpsPeriod == 1000
HighMemoryMB == 500

NoSeries == [name \in {} |-> <<>>]

NothingRecorded == [fps |-> <<>>, memory |-> <<>>, custom |-> NoSeries]

\* new PerformanceMonitor(config) at performance.now() = time
PerformanceMonitor(config, time) ==
    [enabled |-> config.enabled # "false",
     sampleInterval |-> NumOr(config.sampleInterval, DefaultSampleInterval),
     maxSamples |-> NumOr(config.maxSamples, DefaultMaxSamples),
     metrics |-> [fps |-> <<>>, memory |-> <<>>, cpu |-> <<>>, renderTime |-> <<>>,
                  inputLatency |-> <<>>, custom |-> NoSeries],
     intervals |-> <<>>,
     rafId |-> 0,
     lastFrameTime |-> time,
     frameCount |-> 0]

Sample(time, value, metadata) == [timestamp |-> time, value |-> value, extra |-> metadata]

\* push, then shift once the series is longer than maxSamples
pushSample(series, sample, maxSamples) ==
    LET pushed == Append(series, sample)
    IN  IF Len(pushed) > maxSamples THEN Tail(pushed) ELSE pushed

\* recordSample on a built-in series ("fps" or "memory")
recordSample(this, metricName, value, time) ==
    [this EXCEPT !.metrics[metricName] =
        pushSample(this.metrics[metricName], Sample(time, value, EmptyMeta), this.maxSamples)]

\* recordMetric dropping the sample that does not fit instead of the oldest
recordMetricKeepOldest(this, name, value, metadata, time) ==
    IF ~this.enabled THEN this
    ELSE LET series == IF name \in DOMAIN this.metrics.custom
                       THEN this.metrics.custom[name] ELSE <<>>
         IN  [this EXCEPT !.metrics.custom =
                 Put(this.metrics.custom, name,
                     IF Len(series) >= this.maxSamples THEN series
                     ELSE Append(series, Sample(time, value, metadata)))]

recordMetric(this, name, value, metadata, time) ==
    IF ~this.enabled THEN this
    ELSE LET series == IF name \in DOMAIN this.metrics.custom
                       THEN this.metrics.custom[name] ELSE <<>>
         IN  [this EXCEPT !.metrics.custom =
                 Put(this.metrics.custom, name,
                     pushSample(series, Sample(time, value, metadata), this.maxSamples))]

\* the variant that truncates
RoundDown(a, b) == a \div b

\* Math.round(a / b) for a >= 0, b > 0
Round(a, b) == (2 * a + b) \div (2 * b)

\* the recordMetric calls offered: name, value, metadata
MetricInputs == {[name |-> "terminal-render-time", value |-> 16, metadata |-> EmptyMeta],
                 [name |-> "terminal-render-time", value |-> 17, metadata |-> [error |-> "true"]],
                 [name |-> "io", value |-> 16, metadata |-> EmptyMeta]}

\* setInterval / requestAnimationFrame hand out ids no timer or frame in use has
NewIds(n) ==
    LET used == (DOMAIN loop.intervals) \cup loop.frames \cup {mon.rafId}
                    \cup {mon.intervals[i] : i \in DOMAIN mon.intervals}
        RECURSIVE pick(_, _)
        pick(k, from) == IF k = 0 THEN <<>>
                         ELSE IF from \in used THEN pick(k, from + 1)
                         ELSE <<from>> \o pick(k - 1, from + 1)
    IN  pick(n, 1)

FrameDeltas == {500, 1000}     \* milliseconds between two frame callbacks

MemoryMBs == {100, 600}        \* Math.round(usedJSHeapSize / 1024 / 1024)

TotalRecorded ==
    LET RECURSIVE total(_)
        total(names) == IF names = {} THEN 0
                        ELSE LET n == CHOOSE x \in names : TRUE
                             IN  Len(recorded.custom[n]) + total(names \ {n})
    IN  Len(recorded.fps) + Len(recorded.memory) + total(DOMAIN recorded.custom)

Logged == IF fs.active = NoFile THEN 0 ELSE fs.active

InitMonitor ==
    /\ \E e \in {"undefined", "false"}, m \in 1..MaxSamplesCfg :
          mon = PerformanceMonitor([enabled |-> e, sampleInterval |-> Undefined,
                                    maxSamples |-> m], 0)
    /\ loop \in [intervals : {[id \in {} |-> ""]}, frames : {{}}, memory : BOOLEAN]
    /\ recorded = NothingRecorded

\* the module-level recordMetric(name, value, metadata)
recordMetricCall ==
    \E call \in MetricInputs :
      LET name == call.name
          value == call.value
          metadata == call.metadata
      IN
        /\ TotalRecorded < MaxRecords
        /\ mon' = recordMetric(mon, name, value, metadata, now)
        /\ recorded' = IF mon.enabled
                       THEN [recorded EXCEPT !.custom =
                               Put(recorded.custom, name,
                                   Append(IF name \in DOMAIN recorded.custom
                                          THEN recorded.custom[name] ELSE <<>>,
                                          Sample(now, value, metadata)))]
                       ELSE recorded
        /\ UNCHANGED <<loggerVars, trackerVars, loop>>

start ==
    LET text == IF mon.enabled THEN "Starting performance monitoring"
                ELSE "Performance monitoring disabled"
        w == write(handle, INFO, text, EmptyMeta, now, fs, FALSE)
        ids == NewIds(3)
        raf == ids[1]
        mem == ids[2]
        summary == IF loop.memory THEN ids[3] ELSE ids[2]
    IN  /\ handle # NoLogger
        /\ Logged < MaxMonitorLogs
        /\ Cardinality(DOMAIN loop.intervals) + 2 <= MaxTimers
        /\ Cardinality(loop.frames) < MaxTimers
        /\ fs' = w.fs
        /\ last' = WriteOutcome(handle, INFO, text, EmptyMeta, now, w)
        /\ IF ~mon.enabled THEN UNCHANGED <<mon, loop>>
           ELSE /\ mon' = [mon EXCEPT !.rafId = raf,
                                      !.intervals = mon.intervals
                                          \o (IF loop.memory THEN <<mem>> ELSE <<>>)
                                          \o <<summary>>]
                /\ loop' = [loop EXCEPT
                              !.frames = loop.frames \cup {raf},
                              !.intervals = IF loop.memory
                                            THEN Put(Put(loop.intervals, mem, "memory"),
                                                     summary, "summary")
                                            ELSE Put(loop.intervals, summary, "summary")]
        /\ UNCHANGED <<cfg, globals, globalLogger, handle, trackerVars, recorded>>

stop ==
    LET w == write(handle, INFO, "Stopping performance monitoring", EmptyMeta, now, fs, FALSE)
        owned == {mon.intervals[i] : i \in DOMAIN mon.intervals}
    IN  /\ handle # NoLogger
        /\ Logged < MaxMonitorLogs
        /\ fs' = w.fs
        /\ last' = WriteOutcome(handle, INFO, "Stopping performance monitoring", EmptyMeta, now, w)
        /\ mon' = [mon EXCEPT !.intervals = <<>>, !.rafId = 0]
        /\ loop' = [loop EXCEPT
                      !.intervals = [id \in (DOMAIN loop.intervals) \ owned |-> loop.intervals[id]],
                      !.frames = IF mon.rafId # 0 THEN loop.frames \ {mon.rafId} ELSE loop.frames]
        /\ UNCHANGED <<cfg, globals, globalLogger, handle, trackerVars, recorded>>

\* a pending frame callback runs, delta milliseconds after the previous reading
measureFPSIn(deltas, horizon) ==
    \E id \in loop.frames, d \in deltas :
        LET time == now + d
            delta == time - mon.lastFrameTime
            frameCount == mon.frameCount + 1
            emits == delta >= FpsPeriod
            fps == Round(frameCount * 1000, delta)
            counted == [mon EXCEPT !.frameCount = frameCount]
            sampled == IF emits
                       THEN [recordSample(counted, "fps", fps, time)
                                EXCEPT !.frameCount = 0, !.lastFrameTime = time]
                       ELSE counted
        IN  /\ time <= horizon
            /\ emits => TotalRecorded < MaxRecords
            /\ now' = time
            /\ mon' = [sampled EXCEPT !.rafId = NewIds(1)[1]]
            /\ loop' = [loop EXCEPT !.frames = (loop.frames \ {id}) \cup {NewIds(1)[1]}]
            /\ recorded' = IF emits
                           THEN [recorded EXCEPT !.fps = Append(recorded.fps,
                                                                 Sample(time, fps, EmptyMeta))]
                           ELSE recorded
            /\ UNCHANGED <<loggerVars, tracker, trackLog>>

measureFPS == measureFPSIn(FrameDeltas, MaxPerfTime)

\* the memory interval fires
sampleMemory ==
    \E id \in DOMAIN loop.intervals, memoryMB \in MemoryMBs :
        LET meta == [memoryMB |-> ToString(memoryMB)]
            w == write(handle, WARN, "High memory usage detected", meta, now, fs, FALSE)
        IN  /\ loop.intervals[id] = "memory"
            /\ loop.memory
            /\ handle # NoLogger
            /\ TotalRecorded < MaxRecords
            /\ memoryMB > HighMemoryMB => Logged < MaxMonitorLogs
            /\ mon' = recordSample(mon, "memory", memoryMB, now)
            /\ recorded' = [recorded EXCEPT !.memory = Append(recorded.memory,
                                                             Sample(now, memoryMB, EmptyMeta))]
            /\ IF memoryMB > HighMemoryMB
               THEN /\ fs' = w.fs
                    /\ last' = WriteOutcome(handle, WARN, "High memory usage detected", meta, now, w)
               ELSE UNCHANGED <<fs, last>>
            /\ UNCHANGED <<cfg, globals, globalLogger, handle, trackerVars, loop>>

----------------------------------------------------------------------------
(* Statistics.  avg, a quotient, is kept as a fraction in lowest terms.     *)

MissingSeries == << [missing |-> TRUE] >>   \* calculateStats(undefined)

NullStats == [null |-> TRUE]

RECURSIVE GCD(_, _)
GCD(a, b) == IF b = 0 THEN a ELSE GCD(b, a % b)

\* a / b for a >= 0, b > 0
Quotient(a, b) == [num |-> a \div GCD(a, b), den |-> b \div GCD(a, b)]

\* [...values].sort((a, b) => a - b)
RECURSIVE sortAscending(_)
sortAscending(values) ==
    IF values = <<>> THEN <<>>
    ELSE LET n == Len(values)
             v == values[n]
             front == sortAscending(SubSeq(values, 1, n - 1))
             keep == Cardinality({i \in DOMAIN front : front[i] <= v})
         IN  SubSeq(front, 1, keep) \o <<v>> \o SubSeq(front, keep + 1, Len(front))

RECURSIVE MathMin(_)
MathMin(values) ==
    IF Len(values) = 1 THEN values[1]
    ELSE LET m == MathMin(Tail(values)) IN IF values[1] < m THEN values[1] ELSE m

RECURSIVE MathMax(_)
MathMax(values) ==
    IF Len(values) = 1 THEN values[1]
    ELSE LET m == MathMax(Tail(values)) IN IF values[1] > m THEN values[1] ELSE m

RECURSIVE Sum(_)
Sum(values) == IF values = <<>> THEN 0 ELSE values[1] + Sum(Tail(values))

\* Math.floor(n * 0.95), Math.floor(n * 0.99): percent is 95 or 99
FloorOf(n, percent) == (n * percent) \div 100

\* calculateStats with the percentiles taken by nearest rank, ceil(n * p) - 1
calculateStatsNearestRank(samples) ==
    IF samples = MissingSeries \/ Len(samples) = 0 THEN NullStats
    ELSE LET values == [i \in DOMAIN samples |-> samples[i].value]
             sorted == sortAscending(values)
             n == Len(sorted)
         IN  [min |-> MathMin(values),
              max |-> MathMax(values),
              avg |-> Quotient(Sum(values), n),
              median |-> sorted[(n + 1) \div 2],
              p95 |-> sorted[(n * 95 + 99) \div 100],
              p99 |-> sorted[(n * 99 + 99) \div 100],
              count |-> n]

calculateStats(samples) ==
    IF samples = MissingSeries \/ Len(samples) = 0 THEN NullStats
    ELSE LET values == [i \in DOMAIN samples |-> samples[i].value]
             sorted == sortAscending(values)
             n == Len(sorted)
         IN  [min |-> MathMin(values),
              max |-> MathMax(values),
              avg |-> Quotient(Sum(values), n),
              median |-> sorted[n \div 2 + 1],
              p95 |-> sorted[FloorOf(n, 95) + 1],
              p99 |-> sorted[FloorOf(n, 99) + 1],
              count |-> n]

StatsModulus == 11

\* the series of length n with values (a * i + b) mod StatsModulus
SeriesOf(n, a, b) == [i \in 1..n |-> Sample(i, (a * i + b) % StatsModulus, EmptyMeta)]

SeriesInputs ==
    {MissingSeries} \cup {SeriesOf(n, a, b) : n \in 0..MaxStatsLen, a \in {1, 3, 7}, b \in {0, 5}}

calculateStatsCall ==
    \E samples \in SeriesInputs :
        /\ ret' = [op |-> "calculateStats", samples |-> samples, after |-> samples,
                   value |-> calculateStats(samples)]
        /\ UNCHANGED <<loggerVars, trackerVars, monitorVars, asyncs, healthVars>>

\* getMetrics() at Date.now() = time
getMetrics(this, time) ==
    [timestamp |-> time,
     fps |-> calculateStats(this.metrics.fps),
     memory |-> calculateStats(this.metrics.memory),
     cpu |-> calculateStats(this.metrics.cpu),
     renderTime |-> calculateStats(this.metrics.renderTime),
     inputLatency |-> calculateStats(this.metrics.inputLatency),
     custom |-> [name \in DOMAIN this.metrics.custom |->
                    calculateStats(this.metrics.custom[name])]]

RECURSIVE Pow10(_)
Pow10(d) == IF d = 0 THEN 1 ELSE 10 * Pow10(d - 1)

\* the last d decimal digits of x
RECURSIVE Digits(_, _)
Digits(x, d) == IF d = 0 THEN "" ELSE Digits(x \div 10, d - 1) \o ToString(x % 10)

\* Number.prototype.toFixed(d) of the quotient q >= 0
toFixed(q, d) ==
    LET scaled == Round(q.num * Pow10(d), q.den)
    IN  ToString(scaled \div Pow10(d))
            \o (IF d = 0 THEN "" ELSE "." \o Digits(scaled % Pow10(d), d))

\* the 30-second interval fires: logCurrentMetrics()
logCurrentMetrics ==
    \E id \in DOMAIN loop.intervals :
        LET metrics == getMetrics(mon, now)
            meta == [fps |-> IF metrics.fps = NullStats THEN UndefinedText
                             ELSE toFixed(metrics.fps.avg, 1),
                     memory |-> (IF metrics.memory = NullStats THEN "undefined"
                                 ELSE toFixed(metrics.memory.avg, 0)) \o "MB",
                     customMetrics |-> ToString(Cardinality(DOMAIN metrics.custom))]
            w == write(handle, INFO, "Performance metrics", meta, now, fs, FALSE)
        IN  /\ loop.intervals[id] = "summary"
            /\ handle # NoLogger
            /\ Logged < MaxMonitorLogs
            /\ fs' = w.fs
            /\ last' = WriteOutcome(handle, INFO, "Performance metrics", meta, now, w)
            /\ UNCHANGED <<cfg, globals, globalLogger, handle, trackerVars, monitorVars>>

----------------------------------------------------------------------------
(* measure and measureAsync.  asyncs.pending holds the invocations suspended *)
(* at `await fn()`, asyncs.settled the invocations finished, in the order    *)
(* they finished.                                                           *)

SlowOperationMs == 100

MeasureNames == {"complex-calculation", "fetch-data"}

\* what fn does: its outcome, the value returned or thrown, the time it takes
Functions == {[outcome |-> "returns", value |-> "data", elapsed |-> 0],
              [outcome |-> "returns", value |-> "data", elapsed |-> 150],
              [outcome |-> "throws", value |-> "Error: boom", elapsed |-> 0],
              [outcome |-> "throws", value |-> "Error: boom", elapsed |-> 150]}

ErrorFlag == [error |-> "true"]

\* the recordMetric call measure makes on failure, without the error flag
settledUnflagged(this, name, since, time, failed) ==
    recordMetric(this, name, time - since, EmptyMeta, time)

\* measure recording only the invocations that succeed
settledSuccessOnly(this, name, since, time, failed) ==
    IF failed THEN this ELSE recordMetric(this, name, time - since, EmptyMeta, time)

\* the recordMetric call of measure / measureAsync once fn has settled
settled(this, name, since, time, failed) ==
    recordMetric(this, name, time - since, IF failed THEN ErrorFlag ELSE EmptyMeta, time)

SeriesNamed(this, name) ==
    IF name \in DOMAIN this.metrics.custom THEN this.metrics.custom[name] ELSE <<>>

Begun == Len(asyncs.pending) + Len(asyncs.settled)

\* the steps of measure / measureAsync from the moment fn has settled
Settle(op, name, since, fn) ==
    LET time == now + fn.elapsed
        duration == time - since
        failed == fn.outcome = "throws"
        slow == ~failed /\ duration > SlowOperationMs
        meta == [name |-> name, durationMs |-> toFixed(Quotient(duration, 1), 2)]
        w == write(handle, WARN, "Slow operation detected", meta, time, fs, FALSE)
        sample == Sample(time, duration, IF failed THEN ErrorFlag ELSE EmptyMeta)
    IN  /\ handle # NoLogger
        /\ time <= MaxPerfTime
        /\ now' = time
        /\ mon' = settled(mon, name, since, time, failed)
        /\ recorded' = IF mon.enabled
                       THEN [recorded EXCEPT !.custom =
                               Put(recorded.custom, name,
                                   Append(IF name \in DOMAIN recorded.custom
                                          THEN recorded.custom[name] ELSE <<>>, sample))]
                       ELSE recorded
        /\ IF slow
           THEN /\ fs' = w.fs
                /\ last' = WriteOutcome(handle, WARN, "Slow operation detected", meta, time, w)
           ELSE UNCHANGED <<fs, last>>
        /\ ret' = [op |-> op, name |-> name, fn |-> fn, runs |-> 1,
                   raised |-> failed, value |-> fn.value,
                   before |-> SeriesNamed(mon, name)]
        /\ UNCHANGED <<cfg, globals, globalLogger, handle, tracker, trackLog, loop, healthVars>>

\* measure(name, fn): fn runs to its end inside the call
measureCall ==
    \E name \in MeasureNames, fn \in Functions :
        /\ Begun < MaxMeasures
        /\ Settle("measure", name, now, fn)
        /\ asyncs' = [asyncs EXCEPT !.settled =
                         Append(@, [name |-> name, call |-> Begun + 1,
                                    time |-> now + fn.elapsed, duration |-> fn.elapsed,
                                    failed |-> fn.outcome = "throws"])]

\* measureAsync(name, fn) up to its await: fn is called, its promise is pending
measureAsyncCall ==
    \E name \in MeasureNames :
        /\ Begun < MaxMeasures
        /\ asyncs' = [asyncs EXCEPT !.pending = Append(@, [name |-> name, call |-> Begun + 1, start |-> now])]
        /\ ret' = [op |-> "measureAsyncCall", name |-> name]
        /\ UNCHANGED <<loggerVars, trackerVars, monitorVars, healthVars>>

\* a pending measureAsync resumes: fn's promise has settled
measureAsyncSettle ==
    \E i \in DOMAIN asyncs.pending, fn \in Functions :
        LET p == asyncs.pending[i]
        IN  /\ Settle("measureAsync", p.name, p.start, fn)
            /\ asyncs' = [pending |-> SubSeq(asyncs.pending, 1, i - 1)
                                        \o SubSeq(asyncs.pending, i + 1, Len(asyncs.pending)),
                          settled |-> Append(asyncs.settled,
                                             [name |-> p.name, call |-> p.call,
                                              time |-> now + fn.elapsed,
                                              duration |-> now + fn.elapsed - p.start,
                                              failed |-> fn.outcome = "throws"])]

----------------------------------------------------------------------------
(* HealthCheckSystem.  modules, a Map, is the sequence of its entries in     *)
(* insertion order; intervalId 0 is null.                                   *)

DefaultCheckInterval == 60000

HealthCheckSystem(config) ==
    [modules |-> <<>>,
     checkInterval |-> NumOr(config.checkInterval, DefaultCheckInterval),
     intervalId |-> 0]

ModuleNames == {"terminal", "network"}

NeverChecked == 0 - 1                  \* lastCheck: null
NoStatus == [null |-> TRUE]            \* lastStatus: null; the null checkModule returns
NotAnObject == [undefined |-> TRUE]    \* undefined, as a returned or as a thrown value
NotInvoked == [does |-> "nothing"]     \* history of a module whose check never settled

\* what one invocation of a module's `check` does: the object it resolves to,
\* undefined (a check without a return), the Error it throws or rejects with,
\* or a rejection without a reason (Promise.reject())
Predicates ==
    { [does |-> "returns", value |-> [healthy |-> "true"]],
      [does |-> "returns", value |-> [healthy |-> UndefinedText]],
      [does |-> "returns", value |-> [healthy |-> "false"]],
      [does |-> "returns", value |-> NotAnObject],
      [does |-> "throws",  value |-> [message |-> "terminal is gone"]],
      [does |-> "rejects", value |-> [message |-> "request timed out"]],
      [does |-> "rejects", value |-> NotAnObject] }

\* reading a property of undefined
TypeError(property) ==
    [message |-> "Cannot read properties of undefined (reading '" \o property \o "')"]

\* Map.prototype.has, and the position of a key among the entries
Registered(this, name) == \E i \in DOMAIN this.modules : this.modules[i].name = name

EntryOf(this, name) == CHOOSE i \in DOMAIN this.modules : this.modules[i].name = name

RegisteredNames(this) == {this.modules[i].name : i \in DOMAIN this.modules}

LogRecord(level, message, meta) == [level |-> level, message |-> message, meta |-> meta]

\* the log directory after the module's logger has written `logs`
RECURSIVE fsAfter(_, _)
fsAfter(logs, f) ==
    IF logs = <<>> THEN f
    ELSE fsAfter(Tail(logs),
                 write(handle, Head(logs).level, Head(logs).message, Head(logs).meta,
                       now, f, FALSE).fs)

\* logger.error / warn / info of the health-check module, in the order called;
\* what reaches the console is not kept
logAll(logs) ==
    /\ handle # NoLogger
    /\ fs' = fsAfter(logs, fs)
    /\ UNCHANGED <<cfg, globals, globalLogger, handle, last>>

\* the variant in which a re-registered module keeps its failure counter
registerModuleKeeping(names) ==
    \E name \in names :
        LET ref == Len(heap) + 1
            known == Registered(health, name)
            logs == (IF known
                     THEN << LogRecord(WARN, "Module already registered, overwriting",
                                       [name |-> name]) >>
                     ELSE <<>>)
                    \o << LogRecord(INFO, "Module registered for health checks",
                                    [name |-> name]) >>
        IN  /\ Len(heap) < MaxRegistrations
            /\ logAll(logs)
            /\ heap' = Append(heap, [name |-> name, lastCheck |-> NeverChecked,
                                     lastStatus |-> NoStatus,
                                     consecutiveFailures |->
                                        IF known
                                        THEN heap[health.modules[EntryOf(health, name)].ref]
                                                 .consecutiveFailures
                                        ELSE 0])
            /\ health' = [health EXCEPT !.modules =
                            IF known THEN [@ EXCEPT ![EntryOf(health, name)].ref = ref]
                            ELSE Append(@, [name |-> name, seq |-> ref, ref |-> ref])]
            /\ healthLog' = Append(healthLog, [completed |-> 0, did |-> NotInvoked])
            /\ UNCHANGED <<ret, calls, loop>>

registerModule(names) ==
    \E name \in names :
        LET ref == Len(heap) + 1
            known == Registered(health, name)
            logs == (IF known
                     THEN << LogRecord(WARN, "Module already registered, overwriting",
                                       [name |-> name]) >>
                     ELSE <<>>)
                    \o << LogRecord(INFO, "Module registered for health checks",
                                    [name |-> name]) >>
        IN  /\ Len(heap) < MaxRegistrations
            /\ logAll(logs)
            /\ heap' = Append(heap, [name |-> name, lastCheck |-> NeverChecked,
                                     lastStatus |-> NoStatus, consecutiveFailures |-> 0])
            /\ health' = [health EXCEPT !.modules =
                            IF known THEN [@ EXCEPT ![EntryOf(health, name)].ref = ref]
                            ELSE Append(@, [name |-> name, seq |-> ref, ref |-> ref])]
            /\ healthLog' = Append(healthLog, [completed |-> 0, did |-> NotInvoked])
            /\ UNCHANGED <<ret, calls, loop>>

unregisterModule(names) ==
    \E name \in names :
        /\ logAll(IF Registered(health, name)
                  THEN << LogRecord(INFO, "Module unregistered from health checks",
                                    [name |-> name]) >>
                  ELSE <<>>)
        /\ health' = [health EXCEPT !.modules = SelectSeq(@, LAMBDA e : e.name # name)]
        /\ UNCHANGED <<ret, heap, calls, healthLog, loop>>

\* checkModule from `await module.check()` on: what it returns or raises, the
\* module object it leaves, what it logs
checkModuleSettled(module, name, did, startTime, time) ==
    IF did.does = "returns" /\ did.value # NotAnObject
    THEN LET healthy == did.value.healthy # "false"
             status == [name |-> name, timestamp |-> time, healthy |-> healthy,
                        metrics |-> "{}", message |-> UndefinedText,
                        checkDuration |-> time - startTime]
             failures == IF healthy THEN 0 ELSE module.consecutiveFailures + 1
         IN  [raised |-> FALSE, value |-> status,
              module |-> [module EXCEPT !.lastCheck = time, !.lastStatus = status,
                                        !.consecutiveFailures = failures],
              logs |-> IF healthy THEN <<>>
                       ELSE << LogRecord(WARN, "Module health check failed",
                                         [name |-> name,
                                          consecutiveFailures |-> ToString(failures),
                                          message |-> UndefinedText]) >>]
    ELSE LET error == IF did.does = "returns" THEN TypeError("healthy") ELSE did.value
         IN  IF error = NotAnObject
             THEN \* `error.message` raises inside the catch block
                  [raised |-> TRUE, value |-> TypeError("message"), module |-> module,
                   logs |-> <<>>]
             ELSE [raised |-> FALSE,
                   value |-> [name |-> name, timestamp |-> time, healthy |-> FALSE,
                              error |-> error.message,
                              consecutiveFailures |-> module.consecutiveFailures + 1],
                   module |-> [module EXCEPT !.consecutiveFailures = @ + 1],
                   logs |-> << LogRecord(ERROR, "Health check error",
                                         [name |-> name, error |-> error.message]) >>]

Healthy(checks) == {i \in DOMAIN checks : checks[i].healthy}

\* the variant that reports "healthy" as soon as one module is healthy
getStatusSummaryAny(this, checks, time) ==
    [timestamp |-> time,
     overall |-> IF Healthy(checks) # {} \/ checks = <<>> THEN "healthy" ELSE "degraded",
     modules |-> checks,
     totalModules |-> Len(this.modules),
     healthyModules |-> Cardinality(Healthy(checks)),
     unhealthyModules |-> Len(checks) - Cardinality(Healthy(checks))]

\* getStatus once checkAll has resolved to `checks`
getStatusSummary(this, checks, time) ==
    [timestamp |-> time,
     overall |-> IF Healthy(checks) = DOMAIN checks THEN "healthy" ELSE "degraded",
     modules |-> checks,
     totalModules |-> Len(this.modules),
     healthyModules |-> Cardinality(Healthy(checks)),
     unhealthyModules |-> Cardinality((DOMAIN checks) \ Healthy(checks))]

RECURSIVE Completions(_)
Completions(history) ==
    IF history = <<>> THEN 0 ELSE Head(history).completed + Completions(Tail(history))

Invocations == Completions(healthLog) + Len(calls)

CanInvoke(budget) == Len(calls) < MaxCalls /\ Invocations < budget

\* an invocation suspended at `await module.check()`: of checkModule itself, or
\* of the checkModule a run (checkAll, getStatus, a periodic callback) has called
\* for the Map entry its iterator is at; seen is the history of the run
Invoke(op, entry, results, seen) ==
    [op |-> op, name |-> entry.name, ref |-> entry.ref, startTime |-> now,
     cursor |-> entry.seq, results |-> results, seen |-> seen]

RECURSIVE JoinNames(_)
JoinNames(checks) ==
    IF checks = <<>> THEN ""
    ELSE Head(checks).name \o (IF Len(checks) > 1 THEN "," ELSE "") \o JoinNames(Tail(checks))

\* the rest of the setInterval callback, after `await this.getStatus()`
periodicLogs(status) ==
    IF status.unhealthyModules > 0
    THEN << LogRecord(WARN, "Unhealthy modules detected",
                      [unhealthy |-> ToString(status.unhealthyModules),
                       modules |-> JoinNames(SelectSeq(status.modules,
                                                       LAMBDA m : ~m.healthy))]) >>
    ELSE <<>>

Returned(op, name, seen, raised, value) ==
    [op |-> op, name |-> name, did |-> seen, raised |-> raised, value |-> value,
     registered |-> RegisteredNames(health)]

checkModuleCall(names, budget) ==
    \E name \in names :
        IF ~Registered(health, name)
        THEN /\ logAll(<< LogRecord(ERROR, "Module not found", [name |-> name]) >>)
             /\ ret' = Returned("checkModule", name, <<>>, FALSE, NoStatus)
             /\ UNCHANGED <<health, heap, calls, healthLog, loop>>
        ELSE /\ CanInvoke(budget)
             /\ logAll(<<>>)
             /\ calls' = Append(calls, Invoke("checkModule",
                                              health.modules[EntryOf(health, name)],
                                              <<>>, <<>>))
             /\ UNCHANGED <<ret, health, heap, healthLog, loop>>

\* the variant that takes the last entry of the Map first
runFromLast(op, budget) ==
    IF health.modules = <<>>
    THEN /\ logAll(<<>>)
         /\ ret' = Returned(op, "", <<>>, FALSE,
                            IF op = "checkAll" THEN <<>>
                            ELSE getStatusSummary(health, <<>>, now))
         /\ UNCHANGED <<health, heap, calls, healthLog, loop>>
    ELSE /\ CanInvoke(budget)
         /\ logAll(<<>>)
         /\ calls' = Append(calls, Invoke(op, health.modules[Len(health.modules)], <<>>, <<>>))
         /\ UNCHANGED <<ret, health, heap, healthLog, loop>>

\* checkAll, getStatus or a periodic callback, up to the first await
run(op, budget) ==
    IF health.modules = <<>>
    THEN /\ logAll(<<>>)
         /\ ret' = Returned(op, "", <<>>, FALSE,
                            IF op = "checkAll" THEN <<>>
                            ELSE getStatusSummary(health, <<>>, now))
         /\ UNCHANGED <<health, heap, calls, healthLog, loop>>
    ELSE /\ CanInvoke(budget)
         /\ logAll(<<>>)
         /\ calls' = Append(calls, Invoke(op, health.modules[1], <<>>, <<>>))
         /\ UNCHANGED <<ret, health, heap, healthLog, loop>>

checkAll(budget) == run("checkAll", budget)

getStatus(budget) == run("getStatus", budget)

\* the setInterval callback of startPeriodicChecks
periodicCheck(budget) ==
    \E id \in DOMAIN loop.intervals :
        /\ loop.intervals[id] = "health-check"
        /\ run("periodic", budget)

\* the variant that looks the module up when the check has settled
checkSettlesAtCurrent(i, did, budget) ==
    LET call == calls[i]
        target == IF Registered(health, call.name)
                  THEN health.modules[EntryOf(health, call.name)].ref ELSE call.ref
        s == checkModuleSettled(heap[target], call.name, did, call.startTime, now)
        results == Append(call.results, s.value)
        seen == Append(call.seen, [name |-> call.name, did |-> did, seq |-> call.cursor])
        rest == {j \in DOMAIN health.modules : health.modules[j].seq > call.cursor}
        more == call.op # "checkModule" /\ ~s.raised /\ rest # {}
        summary == getStatusSummary(health, results, now)
    IN  /\ more => Invocations < budget
        /\ heap' = [heap EXCEPT ![target] = s.module]
        /\ healthLog' = [healthLog EXCEPT ![call.ref] =
                            [completed |-> @.completed + 1, did |-> did]]
        /\ logAll(s.logs \o (IF call.op = "periodic" /\ ~s.raised /\ ~more
                             THEN periodicLogs(summary) ELSE <<>>))
        /\ IF more
           THEN /\ calls' = [calls EXCEPT ![i] =
                               Invoke(call.op,
                                      health.modules[CHOOSE j \in rest :
                                                        \A k \in rest : j <= k],
                                      results, seen)]
                /\ ret' = ret
           ELSE /\ calls' = SubSeq(calls, 1, i - 1) \o SubSeq(calls, i + 1, Len(calls))
                /\ ret' = Returned(call.op,
                                   IF call.op = "checkModule" THEN call.name ELSE "",
                                   seen, s.raised,
                                   IF s.raised \/ call.op = "checkModule" THEN s.value
                                   ELSE IF call.op = "checkAll" THEN results
                                   ELSE summary)
        /\ UNCHANGED <<health, loop>>

\* a suspended module.check() settles; a run goes on to the next entry of the
\* Map, or returns
checkSettlesAt(i, did, budget) ==
    LET call == calls[i]
        s == checkModuleSettled(heap[call.ref], call.name, did, call.startTime, now)
        results == Append(call.results, s.value)
        seen == Append(call.seen, [name |-> call.name, did |-> did, seq |-> call.cursor])
        rest == {j \in DOMAIN health.modules : health.modules[j].seq > call.cursor}
        more == call.op # "checkModule" /\ ~s.raised /\ rest # {}
        summary == getStatusSummary(health, results, now)
    IN  /\ more => Invocations < budget
        /\ heap' = [heap EXCEPT ![call.ref] = s.module]
        /\ healthLog' = [healthLog EXCEPT ![call.ref] =
                            [completed |-> @.completed + 1, did |-> did]]
        /\ logAll(s.logs \o (IF call.op = "periodic" /\ ~s.raised /\ ~more
                             THEN periodicLogs(summary) ELSE <<>>))
        /\ IF more
           THEN /\ calls' = [calls EXCEPT ![i] =
                               Invoke(call.op,
                                      health.modules[CHOOSE j \in rest :
                                                        \A k \in rest : j <= k],
                                      results, seen)]
                /\ ret' = ret
           ELSE /\ calls' = SubSeq(calls, 1, i - 1) \o SubSeq(calls, i + 1, Len(calls))
                /\ ret' = Returned(call.op,
                                   IF call.op = "checkModule" THEN call.name ELSE "",
                                   seen, s.raised,
                                   IF s.raised \/ call.op = "checkModule" THEN s.value
                                   ELSE IF call.op = "checkAll" THEN results
                                   ELSE summary)
        /\ UNCHANGED <<health, loop>>

checkSettles(predicates, budget) ==
    \E i \in DOMAIN calls, did \in predicates : checkSettlesAt(i, did, budget)

\* the variant that sets a timer whether or not one is running
startPeriodicChecksAgain ==
    /\ Cardinality(DOMAIN loop.intervals) < MaxTimers
    /\ logAll(<< LogRecord(INFO, "Starting periodic health checks",
                           [interval |-> ToString(health.checkInterval)]) >>)
    /\ health' = [health EXCEPT !.intervalId = NewIds(1)[1]]
    /\ loop' = [loop EXCEPT !.intervals = Put(@, NewIds(1)[1], "health-check")]
    /\ UNCHANGED <<ret, heap, calls, healthLog>>

startPeriodicChecks ==
    /\ IF health.intervalId # 0
       THEN /\ logAll(<< LogRecord(WARN, "Periodic checks already running", EmptyMeta) >>)
            /\ UNCHANGED <<health, loop>>
       ELSE /\ Cardinality(DOMAIN loop.intervals) < MaxTimers
            /\ logAll(<< LogRecord(INFO, "Starting periodic health checks",
                                   [interval |-> ToString(health.checkInterval)]) >>)
            /\ health' = [health EXCEPT !.intervalId = NewIds(1)[1]]
            /\ loop' = [loop EXCEPT !.intervals = Put(@, NewIds(1)[1], "health-check")]
    /\ UNCHANGED <<ret, heap, calls, healthLog>>

stopPeriodicChecks ==
    /\ IF health.intervalId # 0
       THEN /\ logAll(<< LogRecord(INFO, "Stopped periodic health checks", EmptyMeta) >>)
            /\ health' = [health EXCEPT !.intervalId = 0]
            /\ loop' = [loop EXCEPT !.intervals = Remove(@, health.intervalId)]
       ELSE /\ logAll(<<>>)
            /\ UNCHANGED <<health, loop>>
    /\ UNCHANGED <<ret, heap, calls, healthLog>>

\* a status checkModule built and cached; the entry getLastStatus makes up for an
\* unchecked module has healthy: null, which `===` finds equal to neither boolean
CachedStatus(m) == "timestamp" \in DOMAIN m

NotYetChecked(name) == [name |-> name, healthy |-> "null", message |-> "Not yet checked"]

\* the variant that takes an unchecked module for a healthy one
getLastStatusOptimistic(this, objects, time) ==
    LET modules == [i \in DOMAIN this.modules |->
                      IF objects[this.modules[i].ref].lastStatus # NoStatus
                      THEN objects[this.modules[i].ref].lastStatus
                      ELSE NotYetChecked(this.modules[i].name)]
    IN  [timestamp |-> time,
         overall |-> IF \E i \in DOMAIN modules :
                            CachedStatus(modules[i]) /\ ~modules[i].healthy
                     THEN "degraded" ELSE "healthy",
         modules |-> modules,
         totalModules |-> Len(this.modules)]

getLastStatus(this, objects, time) ==
    LET modules == [i \in DOMAIN this.modules |->
                      IF objects[this.modules[i].ref].lastStatus # NoStatus
                      THEN objects[this.modules[i].ref].lastStatus
                      ELSE NotYetChecked(this.modules[i].name)]
    IN  [timestamp |-> time,
         overall |-> IF \A i \in DOMAIN modules :
                            CachedStatus(modules[i]) /\ modules[i].healthy
                     THEN "healthy"
                     ELSE IF \E i \in DOMAIN modules :
                                 CachedStatus(modules[i]) /\ ~modules[i].healthy
                          THEN "degraded" ELSE "unknown",
         modules |-> modules,
         totalModules |-> Len(this.modules)]

\* ret keeps, beside the value returned, the module objects and their histories
\* as they were at the call
getLastStatusCall ==
    /\ ret' = [op |-> "getLastStatus",
               value |-> getLastStatus(health, heap, now),
               objects |-> [i \in DOMAIN health.modules |-> heap[health.modules[i].ref]],
               history |-> [i \in DOMAIN health.modules |->
                               healthLog[health.modules[i].ref]]]
    /\ UNCHANGED <<loggerVars, healthVars, loop>>

----------------------------------------------------------------------------
(* Specifications *)

IdleCalls ==
    /\ ret = NoReturn
    /\ asyncs = [pending |-> <<>>, settled |-> <<>>]

IdleHealth ==
    /\ health = HealthCheckSystem([checkInterval |-> Undefined])
    /\ heap = <<>>
    /\ calls = <<>>
    /\ healthLog = <<>>

IdleTracker ==
    /\ tracker = ErrorTracker([enabled |-> "undefined", maxErrors |-> Undefined])
    /\ trackLog = <<>>
    /\ now = 0

IdleMonitor ==
    /\ mon = PerformanceMonitor([enabled |-> "undefined", sampleInterval |-> Undefined,
                                 maxSamples |-> Undefined], 0)
    /\ loop = [intervals |-> [id \in {} |-> ""], frames |-> {}, memory |-> FALSE]
    /\ recorded = NothingRecorded

\* levels and destinations: rotation settings left to their defaults
NextLogger ==
    \/ initialize(LevelInputs, OutputInputs, NoFault) /\ UNCHANGED <<trackerVars, monitorVars, callVars, healthVars>>
    \/ getLogger(EnvLogLevels, BOOLEAN, NoFault) /\ UNCHANGED <<trackerVars, monitorVars, callVars, healthVars>>
    \/ log({globalLogger}, Levels, Metas, BOOLEAN) /\ UNCHANGED <<trackerVars, monitorVars, callVars, healthVars>>

InitLevels ==
    InitLogger({Undefined}, {Undefined}) /\ IdleTracker /\ IdleMonitor /\ IdleCalls /\ IdleHealth

SpecLogger == InitLevels /\ [][NextLogger]_vars

\* rotation, no filesystem fault
NextRotation ==
    \/ initialize({Undefined}, {{"file"}}, NoFault) /\ UNCHANGED <<trackerVars, monitorVars, callVars, healthVars>>
    \/ getLogger({""}, {TRUE}, NoFault) /\ UNCHANGED <<trackerVars, monitorVars, callVars, healthVars>>
    \/ createLogger({"terminal"}, {""}, {TRUE}, NoFault) /\ UNCHANGED <<trackerVars, monitorVars, callVars, healthVars>>
    \/ log({globalLogger, handle}, {INFO}, {EmptyMeta}, {FALSE}) /\ UNCHANGED <<trackerVars, monitorVars, callVars, healthVars>>

InitRotation ==
    InitLogger(1..MaxLogSizeCfg, 1..MaxLogFilesCfg) /\ IdleTracker /\ IdleMonitor
        /\ IdleCalls /\ IdleHealth

SpecRotation == InitRotation /\ [][NextRotation]_vars

\* rotation, any filesystem call may throw
NextFaults ==
    \/ initialize({Undefined}, {{"file"}}, Faults) /\ UNCHANGED <<trackerVars, monitorVars, callVars, healthVars>>
    \/ getLogger({""}, {TRUE}, Faults) /\ UNCHANGED <<trackerVars, monitorVars, callVars, healthVars>>
    \/ createLogger({"terminal"}, {""}, {TRUE}, Faults) /\ UNCHANGED <<trackerVars, monitorVars, callVars, healthVars>>
    \/ log({globalLogger, handle}, {INFO}, {EmptyMeta}, BOOLEAN) /\ UNCHANGED <<trackerVars, monitorVars, callVars, healthVars>>

SpecFaults == InitRotation /\ [][NextFaults]_vars

----------------------------------------------------------------------------
(* Claims about the Logger *)

Constructions == {"initialize", "getLogger", "createLogger"}

Emitted == last.console # <<>> \/ last.file # <<>>

\* C1: with threshold T given as config.level, a call at level L that neither
\* throws nor loses its append emits iff L <= T: one record per configured
\* destination, carrying the level name of the method called; a suppressed
\* call writes nothing anywhere.
C1_EmitsIffAtOrBelowThreshold ==
    (last.op = "log" /\ last.logger.asked \in Levels /\ ~last.raised /\ last.fallback = <<>>) =>
        LET emits == last.level <= last.logger.asked
            name == LogLevelNames[last.level + 1]
        IN  /\ Len(last.console) = IF emits /\ "console" \in last.logger.outputs THEN 1 ELSE 0
            /\ Len(last.file) = IF emits /\ "file" \in last.logger.outputs THEN 1 ELSE 0
            /\ \A i \in DOMAIN last.console : last.console[i].line.level = name
            /\ \A i \in DOMAIN last.file : last.file[i].json.level = name

\* C2: a logging call never raises into its caller, whatever the message and
\* metadata; a failed append is reported on the console and the call returns.
C2_LoggingNeverRaises ==
    last.op = "log" => ~last.raised

\* C3: initialize, getLogger and createLogger do not propagate a filesystem
\* fault (directory creation, rotation step): a logger is still returned.
C3_ConstructionRecoversFromFaults ==
    last.op \in Constructions => (~last.raised /\ last.logger # NoLogger)

\* C4: right after a rotation check that completed, the active log file does
\* not exist or its size is at most the maxLogSize of the logger constructed.
C4_ActiveWithinMaxAfterCheck ==
    (last.op \in Constructions /\ last.checked) =>
        (fs.active = NoFile \/ fs.active <= last.logger.maxLogSize)

C4_Witness ==
    last.op \in Constructions /\ last.checked /\ last.rotated /\ fs.active = NoFile

LogFileCount == Cardinality(DOMAIN fs.gens) + (IF fs.active = NoFile THEN 0 ELSE 1)

\* C5: the directory never holds more than maxLogFiles generations (so at most
\* maxLogFiles + 1 log files), and of two adjacent generations the lower
\* numbered one was rotated out more recently.
C5_GenerationsBoundedAndOrdered ==
    /\ Cardinality(DOMAIN fs.gens) <= cfg.maxLogFiles
    /\ LogFileCount <= cfg.maxLogFiles + 1
    /\ \A i \in DOMAIN fs.gens :
          (i + 1) \in DOMAIN fs.gens => fs.gens[i].rot > fs.gens[i + 1].rot

C5_Witness ==
    /\ fs.rotations = 3
    /\ DOMAIN fs.gens = {1, 2}
    /\ fs.active # NoFile

\* C6: once maxLogFiles rotations have happened, generations 1..maxLogFiles all
\* exist and hold the maxLogFiles most recently rotated-out files, generation i
\* being the i-th most recent.
C6_LastMaxLogFilesKept ==
    fs.rotations >= cfg.maxLogFiles =>
        /\ DOMAIN fs.gens = 1..cfg.maxLogFiles
        /\ \A i \in 1..cfg.maxLogFiles : fs.gens[i].rot = fs.rotations - i + 1

----------------------------------------------------------------------------
(* The error tracker with its module logger, createLogger("error-tracker") *)

NextTracker ==
    \/ createLogger({"error-tracker"}, {""}, {FALSE}, NoFault) /\ UNCHANGED <<trackerVars, monitorVars, callVars, healthVars>>
    \/ trackError /\ UNCHANGED <<monitorVars, callVars, healthVars>>
    \/ clearErrors /\ UNCHANGED <<monitorVars, callVars, healthVars>>

InitTracking ==
    InitLogger({Undefined}, {Undefined}) /\ InitTracker /\ IdleMonitor /\ IdleCalls /\ IdleHealth

SpecTracker == InitTracking /\ [][NextTracker]_vars

Records == {last.console[i].line : i \in DOMAIN last.console}
               \cup {last.file[i].json : i \in DOMAIN last.file}

\* C7: an entry emitted through the handle of createLogger(m) carries module m,
\* the logger's timestamp, the level name of the method called and the message
\* argument, whatever metadata is passed.
C7_StandardFieldsKept ==
    /\ handle # NoLogger => handle.module = "error-tracker"
    /\ last.op = "log" =>
          \A r \in Records :
              /\ r.module = last.logger.module
              /\ r.timestamp = ToISOString(last.t)
              /\ r.level = LogLevelNames[last.level + 1]
              /\ r.message = last.message

TrackedMessages == {trackLog[i].message : i \in DOMAIN trackLog}

Occurrences(m) == Cardinality({i \in DOMAIN trackLog : trackLog[i].message = m})

FirstTracked(m) == CHOOSE i \in DOMAIN trackLog :
                      /\ trackLog[i].message = m
                      /\ \A j \in 1..(i - 1) : trackLog[j].message # m

CountOf(m) == NumOr(MapGet(tracker.errorCounts, m), 0)

InTopErrors(m, n) ==
    LET top == getErrorSummary(tracker).topErrors
    IN  \E j \in DOMAIN top : top[j] = [message |-> m, count |-> n]

ClearedMeansEmpty ==
    trackLog = <<>> => (tracker.errors = <<>> /\ tracker.errorCounts = <<>>)

\* C9 as claimed: after N trackError calls with one message since the last
\* clearErrors its count is N, and it is in topErrors with count N whenever
\* fewer than 5 other messages have a higher count.
C9_InTopUnlessFiveHigher ==
    /\ ClearedMeansEmpty
    /\ \A m \in TrackedMessages :
          /\ CountOf(m) = Occurrences(m)
          /\ Cardinality({o \in TrackedMessages : CountOf(o) > CountOf(m)}) < TopErrorsCount
                => InTopErrors(m, Occurrences(m))

\* the messages sorted before m by getErrorSummary
Ahead(m) == {o \in TrackedMessages :
                \/ CountOf(o) > CountOf(m)
                \/ CountOf(o) = CountOf(m) /\ FirstTracked(o) < FirstTracked(m)}

\* C9 as amended: the count is N, and the message is in topErrors (with count
\* N) exactly when fewer than 5 other messages rank ahead of it: a higher
\* count, or the same count and an earlier first occurrence since the last
\* clearErrors.
C9_InTopUnlessFiveAhead ==
    /\ ClearedMeansEmpty
    /\ \A m \in TrackedMessages :
          /\ CountOf(m) = Occurrences(m)
          /\ InTopErrors(m, Occurrences(m)) <=> Cardinality(Ahead(m)) < TopErrorsCount

C9_Witness ==
    /\ Cardinality(TrackedMessages) > TopErrorsCount
    /\ \E m \in TrackedMessages :
          /\ Occurrences(m) > tracker.maxErrors
          /\ InTopErrors(m, Occurrences(m))

\* C10: the history is the most recent min(k, maxErrors) records tracked since
\* the last clearErrors, in call order.
C10_HistoryIsMostRecent ==
    /\ Len(tracker.errors) <= tracker.maxErrors
    /\ tracker.errors = Last(trackLog, tracker.maxErrors)

C10_Witness ==
    /\ Len(trackLog) > tracker.maxErrors + 1
    /\ tracker.errors # <<>>

----------------------------------------------------------------------------
(* The queries of the error tracker, after a run of trackError calls *)

NextQueries ==
    \/ createLogger({"error-tracker"}, {""}, {FALSE}, NoFault)
          /\ UNCHANGED <<trackerVars, monitorVars, callVars, healthVars>>
    \/ trackErrorIn(1, MaxQueryCalls) /\ ret' = NoReturn
          /\ UNCHANGED <<monitorVars, asyncs, healthVars>>
    \/ getErrorsCall
    \/ getErrorSummaryCall

InitQueries ==
    /\ InitLogger({Undefined}, {Undefined})
    /\ tracker \in {ErrorTracker([enabled |-> "undefined", maxErrors |-> m]) :
                        m \in {MaxErrorsCfg, Undefined}}
    /\ trackLog = <<>>
    /\ now = 0
    /\ IdleMonitor /\ IdleCalls /\ IdleHealth

SpecQueries == InitQueries /\ [][NextQueries]_vars

RankedBefore(a, b) ==
    \/ Occurrences(a) > Occurrences(b)
    \/ Occurrences(a) = Occurrences(b) /\ FirstTracked(a) < FirstTracked(b)

\* the part of C11 about topErrors and recentErrors: topErrors holds the (at
\* most 5) highest entries with their counts, by count descending and then by
\* first occurrence; recentErrors is the last min(10, length) history records.
TopAndRecentAsClaimed ==
    ret.op = "getErrorSummary" =>
        LET top == ret.value.topErrors
            listed == {top[j].message : j \in DOMAIN top}
        IN  /\ Len(top) = Min(5, Cardinality(TrackedMessages))
            /\ \A j \in DOMAIN top :
                  /\ top[j].message \in TrackedMessages
                  /\ top[j].count = Occurrences(top[j].message)
            /\ \A j, k \in DOMAIN top : j < k => RankedBefore(top[j].message, top[k].message)
            /\ \A m \in TrackedMessages \ listed : \A o \in listed : RankedBefore(o, m)
            /\ ret.value.recentErrors =
                  SubSeq(tracker.errors, Len(tracker.errors) - Min(10, Len(tracker.errors)) + 1,
                         Len(tracker.errors))
            /\ tracker.errors = Last(trackLog, tracker.maxErrors)

\* C11: getErrorSummary returns the top 5 and the recent 10 as above, and
\* totalErrors is the total count of errors tracked since the last clearErrors.
C11_SummaryAsClaimed ==
    /\ TopAndRecentAsClaimed
    /\ ret.op = "getErrorSummary" => ret.value.totalErrors = Len(trackLog)

\* C12: getErrors(filter) returns, in insertion order, the history records of
\* the type supplied and not older than the `since` supplied, cut to the last
\* `limit` of them when a limit (any limit >= 0) is supplied.
C12_GetErrorsAsClaimed ==
    ret.op = "getErrors" =>
        LET f == ret.filter
            matches(e) == /\ f.type # "" => e.type = f.type
                          /\ f.since # Undefined => e.timestamp >= f.since
            matching == SelectSeq(tracker.errors, matches)
        IN  /\ ret.value = IF f.limit # Undefined THEN Last(matching, f.limit) ELSE matching
            /\ f.limit # Undefined => Len(ret.value) <= f.limit
            /\ (f.type = "" /\ f.since = Undefined /\ f.limit = Undefined)
                  => ret.value = tracker.errors

----------------------------------------------------------------------------
(* The performance monitor with its module logger, createLogger("performance-monitor") *)

NextMonitor ==
    \/ createLogger({"performance-monitor"}, {""}, {FALSE}, NoFault) /\ UNCHANGED <<trackerVars, monitorVars, callVars, healthVars>>
    \/ recordMetricCall /\ UNCHANGED <<callVars, healthVars>>
    \/ start /\ UNCHANGED <<callVars, healthVars>>
    \/ stop /\ UNCHANGED <<callVars, healthVars>>
    \/ measureFPS /\ UNCHANGED <<callVars, healthVars>>
    \/ sampleMemory /\ UNCHANGED <<callVars, healthVars>>

InitMonitoring ==
    InitLogger({Undefined}, {Undefined}) /\ IdleTracker /\ InitMonitor /\ IdleCalls /\ IdleHealth

SpecMonitor == InitMonitoring /\ [][NextMonitor]_vars

----------------------------------------------------------------------------
(* measure and measureAsync on the monitor *)

NextMeasure ==
    \/ createLogger({"performance-monitor"}, {""}, {FALSE}, NoFault)
          /\ UNCHANGED <<trackerVars, monitorVars, callVars, healthVars>>
    \/ measureCall
    \/ measureAsyncCall
    \/ measureAsyncSettle

InitMeasure ==
    /\ InitLogger({Undefined}, {Undefined}) /\ IdleTracker /\ IdleCalls /\ IdleHealth
    /\ \E e \in {"undefined", "false"}, m \in 1..MaxSamplesCfg :
          mon = PerformanceMonitor([enabled |-> e, sampleInterval |-> Undefined,
                                    maxSamples |-> m], 0)
    /\ loop = [intervals |-> [id \in {} |-> ""], frames |-> {}, memory |-> FALSE]
    /\ recorded = NothingRecorded

SpecMeasure == InitMeasure /\ [][NextMeasure]_vars

Measured == ret.op \in {"measure", "measureAsync"}

\* the failure of fn reaches the caller as it is
FailureReraised == ret.raised /\ ret.value = ret.fn.value

\* the call pushed exactly one sample under its name, flagged, duration >= 0
OneFlaggedSample ==
    LET series == SeriesNamed(mon, ret.name)
    IN  /\ series # <<>>
        /\ LET sample == series[Len(series)]
           IN  /\ "error" \in DOMAIN sample.extra
               /\ sample.extra.error = "true"
               /\ sample.value >= 0
               /\ series = Last(Append(ret.before, sample), mon.maxSamples)

SettledNamed(name) ==
    LET named(c) == c.name = name IN SelectSeq(asyncs.settled, named)

\* one sample for each of them
ExpectedSamples(name) ==
    LET done == SettledNamed(name)
    IN  [i \in DOMAIN done |->
            Sample(done[i].time, done[i].duration,
                   IF done[i].failed THEN ErrorFlag ELSE EmptyMeta)]

\* fn ran once and its own outcome is what the caller gets
OutcomeUnchanged ==
    Measured =>
        /\ ret.runs = 1
        /\ ret.raised = (ret.fn.outcome = "throws")
        /\ ret.value = ret.fn.value

----------------------------------------------------------------------------
(* The timers of the monitor *)

NextTimers ==
    \/ globalLogger = NoLogger /\ initialize({Undefined}, {UndefinedOutputs}, NoFault)
          /\ UNCHANGED <<trackerVars, monitorVars, callVars, healthVars>>
    \/ createLogger({"performance-monitor"}, {""}, {FALSE}, NoFault)
          /\ UNCHANGED <<trackerVars, monitorVars, callVars, healthVars>>
    \/ start /\ ret' = [op |-> "start"] /\ UNCHANGED <<asyncs, healthVars>>
    \/ stop /\ ret' = [op |-> "stop"] /\ UNCHANGED <<asyncs, healthVars>>
    \/ measureFPS /\ UNCHANGED <<callVars, healthVars>>
    \/ sampleMemory /\ UNCHANGED <<callVars, healthVars>>
    \/ logCurrentMetrics /\ UNCHANGED <<callVars, healthVars>>

InitTimers ==
    /\ InitLogger({Undefined}, {Undefined}) /\ IdleTracker /\ IdleCalls /\ IdleHealth
    /\ \E e \in {"undefined", "false"} :
          mon = PerformanceMonitor([enabled |-> e, sampleInterval |-> Undefined,
                                    maxSamples |-> MaxSamplesCfg], 0)
    /\ loop \in [intervals : {[id \in {} |-> ""]}, frames : {{}}, memory : BOOLEAN]
    /\ recorded = NothingRecorded

SpecTimers == InitTimers /\ [][NextTimers]_vars

\* C15: once stop() has returned, and until the next start(), no frame
\* callback and no interval of the monitor is scheduled.
C15_NothingScheduledAfterStop ==
    ret.op = "stop" => (loop.frames = {} /\ DOMAIN loop.intervals = {})

----------------------------------------------------------------------------
(* calculateStats on the series offered *)

NextStats == calculateStatsCall

SpecStats == InitLevels /\ [][NextStats]_vars

\* the element at index k (from 0) of the values sorted ascending
Ranked(values, k) ==
    CHOOSE v \in {values[i] : i \in DOMAIN values} :
        /\ Cardinality({i \in DOMAIN values : values[i] < v}) <= k
        /\ k < Cardinality({i \in DOMAIN values : values[i] <= v})

\* C16: null for an empty or missing series; otherwise count, min, max,
\* avg = sum / n, and median, p95, p99 the elements of the ascending sort
\* at index floor(n / 2), floor(n * 0.95), floor(n * 0.99), each below n; a
\* single value v gives v for all six; the input is left as it was.
C16_StatsAsClaimed ==
    ret.op = "calculateStats" =>
        IF ret.samples = MissingSeries \/ ret.samples = <<>> THEN ret.value = NullStats
        ELSE LET values == [i \in DOMAIN ret.samples |-> ret.samples[i].value]
                 n == Len(values)
                 r == ret.value
             IN  /\ r.count = n
                 /\ \A i \in DOMAIN values : r.min <= values[i] /\ values[i] <= r.max
                 /\ \E i \in DOMAIN values : r.min = values[i]
                 /\ \E i \in DOMAIN values : r.max = values[i]
                 /\ r.avg.num * n = Sum(values) * r.avg.den
                 /\ n \div 2 < n /\ (n * 95) \div 100 < n /\ (n * 99) \div 100 < n
                 /\ r.median = Ranked(values, n \div 2)
                 /\ r.p95 = Ranked(values, (n * 95) \div 100)
                 /\ r.p99 = Ranked(values, (n * 99) \div 100)
                 /\ n = 1 => /\ r.min = values[1] /\ r.max = values[1]
                             /\ r.avg = [num |-> values[1], den |-> 1]
                             /\ r.median = values[1] /\ r.p95 = values[1] /\ r.p99 = values[1]
                 /\ ret.after = ret.samples

C16_Witness ==
    /\ ret.op = "calculateStats"
    /\ ret.samples # MissingSeries
    /\ Len(ret.samples) > 20
    /\ ret.value.min < ret.value.median
    /\ ret.value.median < ret.value.p95
    /\ ret.value.p95 <= ret.value.max
    /\ ret.value.avg.den > 1

----------------------------------------------------------------------------
(* The health-check registry.  The application has initialized the logger   *)
(* with console output before the module creates its own.                   *)

HealthLogger ==
    \/ globalLogger = NoLogger /\ initialize({Undefined}, {UndefinedOutputs}, NoFault)
    \/ globalLogger # NoLogger /\ handle = NoLogger
          /\ createLogger({"health-check"}, {""}, {FALSE}, NoFault)

\* one module, registered, replaced and unregistered while its checks are in flight
CheckPredicates == {did \in Predicates : did # [does |-> "returns", value |-> NotAnObject]}

NextHealth ==
    \/ HealthLogger /\ UNCHANGED <<trackerVars, monitorVars, callVars, healthVars>>
    \/ registerModule({"terminal"}) /\ UNCHANGED <<trackerVars, mon, recorded, asyncs>>
    \/ unregisterModule({"terminal"}) /\ UNCHANGED <<trackerVars, mon, recorded, asyncs>>
    \/ checkModuleCall(ModuleNames, MaxChecks) /\ UNCHANGED <<trackerVars, mon, recorded, asyncs>>
    \/ checkSettles(CheckPredicates, MaxChecks) /\ UNCHANGED <<trackerVars, mon, recorded, asyncs>>

InitHealth ==
    /\ InitLogger({Undefined}, {Undefined}) /\ IdleTracker /\ IdleMonitor /\ IdleCalls
    /\ IdleHealth

SpecHealth == InitHealth /\ [][NextHealth]_vars

\* a check that returned healthy = false, returned no object, threw or rejected
Failed(did) ==
    \/ did.does \in {"throws", "rejects"}
    \/ did.value = [healthy |-> "false"]
    \/ did.value = NotAnObject

\* the module objects whose check settles in this step
Settling == {ref \in DOMAIN heap : healthLog'[ref].completed = healthLog[ref].completed + 1}

\* C17: a module starts with consecutiveFailures 0 at its (re-)registration;
\* each non-healthy result completed for it (healthy = false, thrown,
\* rejected) adds exactly one, each healthy result sets it to 0, and nothing
\* else changes it: in every state it is the number of non-healthy results
\* since the last healthy one or the registration.
C17_ConsecutiveFailuresAsClaimed ==
    /\ [](\A ref \in DOMAIN heap :
            healthLog[ref].completed = 0 => heap[ref].consecutiveFailures = 0)
    /\ [][\A ref \in DOMAIN heap :
            heap'[ref].consecutiveFailures =
                IF ref \notin Settling THEN heap[ref].consecutiveFailures
                ELSE IF Failed(healthLog'[ref].did) THEN heap[ref].consecutiveFailures + 1
                ELSE 0]_vars

\* C18: checkModule on a registered module returns a status for that name,
\* healthy = false exactly when the check threw, rejected or returned
\* healthy = false, with the captured error after a throw or rejection;
\* on an unregistered name it returns null, invokes nothing and changes no
\* module.
C18_CheckModuleAsClaimed ==
    /\ []((ret.op = "checkModule" /\ ret.did # <<>>) =>
            LET did == ret.did[1].did
            IN  /\ ~ret.raised
                /\ ret.value.name = ret.name
                /\ ret.value.healthy = ~(\/ did.does \in {"throws", "rejects"}
                                         \/ did.value = [healthy |-> "false"])
                /\ did.does \in {"throws", "rejects"} => ret.value.error = did.value.message)
    /\ [][(ret' # ret /\ ret'.op = "checkModule" /\ ret'.did = <<>>) =>
            /\ ret'.name \notin RegisteredNames(health)
            /\ ~ret'.raised /\ ret'.value = NoStatus
            /\ UNCHANGED <<health, heap, calls, healthLog>>]_vars

----------------------------------------------------------------------------
(* Runs over the registry: checkAll, getStatus and the periodic callback,   *)
(* each awaited before the next call is made.                               *)

RunPredicates ==
    {did \in Predicates : did # [does |-> "returns", value |-> [healthy |-> UndefinedText]]}

NextStatus ==
    \/ HealthLogger /\ UNCHANGED <<trackerVars, monitorVars, callVars, healthVars>>
    \/ registerModule(ModuleNames) /\ UNCHANGED <<trackerVars, mon, recorded, asyncs>>
    \/ calls = <<>> /\ checkModuleCall(ModuleNames, MaxRunChecks)
          /\ UNCHANGED <<trackerVars, mon, recorded, asyncs>>
    \/ calls = <<>> /\ checkAll(MaxRunChecks)
          /\ UNCHANGED <<trackerVars, mon, recorded, asyncs>>
    \/ calls = <<>> /\ getStatus(MaxRunChecks)
          /\ UNCHANGED <<trackerVars, mon, recorded, asyncs>>
    \/ calls = <<>> /\ periodicCheck(MaxRunChecks)
          /\ UNCHANGED <<trackerVars, mon, recorded, asyncs>>
    \/ checkSettles(RunPredicates, MaxRunChecks)
          /\ UNCHANGED <<trackerVars, mon, recorded, asyncs>>
    \/ startPeriodicChecks /\ UNCHANGED <<trackerVars, mon, recorded, asyncs>>
    \/ stopPeriodicChecks /\ UNCHANGED <<trackerVars, mon, recorded, asyncs>>

InitStatus ==
    /\ InitLogger({Undefined}, {Undefined}) /\ IdleTracker /\ IdleMonitor /\ IdleCalls
    /\ IdleHealth

SpecStatus == InitStatus /\ [][NextStatus]_vars

\* the check resolved to an object whose healthy field is not false
ReportedHealthy(did) ==
    did.does = "returns" /\ did.value # NotAnObject /\ did.value.healthy # "false"

EvaluatedNames(seen) == {seen[i].name : i \in DOMAIN seen}

StatusesOf(r) ==
    IF r.op = "checkModule" THEN << r.value >>
    ELSE IF r.op = "checkAll" THEN r.value
    ELSE r.value.modules

\* C20: whatever a health predicate does, checkModule, checkAll, getStatus and
\* a periodic run neither throw nor reject; every failed check is turned into
\* a status with healthy = false and the other registered modules of the run
\* are still evaluated.
C20_FailuresNeverEscape ==
    (ret.op \in {"checkModule", "checkAll", "getStatus", "periodic"} /\ ret.did # <<>>) =>
        /\ ~ret.raised
        /\ \A i \in DOMAIN ret.did : Failed(ret.did[i].did) => ~StatusesOf(ret)[i].healthy
        /\ ret.op # "checkModule" => ret.registered \subseteq EvaluatedNames(ret.did)

----------------------------------------------------------------------------
(* The cached statuses: modules registered, replaced, removed and checked   *)
(* one call at a time, and getLastStatus between the calls.                 *)

CachePredicates ==
    {did \in Predicates : \/ did.value \in {[healthy |-> "true"], [healthy |-> "false"]}
                          \/ did.does = "throws"}

NextCache ==
    \/ HealthLogger /\ UNCHANGED <<trackerVars, monitorVars, callVars, healthVars>>
    \/ registerModule(ModuleNames) /\ UNCHANGED <<trackerVars, mon, recorded, asyncs>>
    \/ unregisterModule(ModuleNames) /\ UNCHANGED <<trackerVars, mon, recorded, asyncs>>
    \/ calls = <<>> /\ checkModuleCall(ModuleNames, MaxRunChecks)
          /\ UNCHANGED <<trackerVars, mon, recorded, asyncs>>
    \/ checkSettles(CachePredicates, MaxRunChecks)
          /\ UNCHANGED <<trackerVars, mon, recorded, asyncs>>
    \/ getLastStatusCall /\ UNCHANGED <<trackerVars, mon, recorded, asyncs>>

InitCache ==
    /\ InitLogger({Undefined}, {Undefined}) /\ IdleTracker /\ IdleMonitor /\ IdleCalls
    /\ IdleHealth

SpecCache == InitCache /\ [][NextCache]_vars

\* C21: getLastStatus invokes no check and changes no module; a module never
\* checked is reported with healthy = null, every other one with its cached
\* status; overall is "healthy" iff every cached result has healthy = true,
\* "degraded" if some has healthy = false, "unknown" otherwise.
C21_LastStatusAsClaimed ==
    /\ [](ret.op = "getLastStatus" =>
            LET reported == ret.value.modules
                cached == {i \in DOMAIN ret.objects : ret.objects[i].lastStatus # NoStatus}
            IN  /\ DOMAIN reported = DOMAIN ret.objects
                /\ \A i \in DOMAIN reported :
                      /\ reported[i].name = ret.objects[i].name
                      /\ ret.history[i].completed = 0 =>
                            ~CachedStatus(reported[i]) /\ reported[i].healthy = "null"
                      /\ i \in cached => reported[i] = ret.objects[i].lastStatus
                /\ ret.value.overall =
                      IF \A i \in DOMAIN reported :
                            i \in cached /\ ret.objects[i].lastStatus.healthy
                      THEN "healthy"
                      ELSE IF \E i \in cached : ~ret.objects[i].lastStatus.healthy
                           THEN "degraded" ELSE "unknown")
    /\ [][(ret' # ret /\ ret'.op = "getLastStatus") =>
            UNCHANGED <<health, heap, calls, healthLog>>]_vars

C21_Witness ==
    /\ ret.op = "getLastStatus"
    /\ Len(ret.value.modules) = 2
    /\ ret.history[1].completed = 0 /\ ret.value.modules[1].healthy = "null"
    /\ CachedStatus(ret.value.modules[2]) /\ ret.value.modules[2].healthy
    /\ ret.value.overall = "unknown"

\* C22: a registered module is unchecked until a check of it completes; from
\* then on getLastStatus reports it healthy or unhealthy, as the latest
\* completed check turned out (returned, thrown or rejected), never unchecked
\* again.
C22_ModuleStateAsClaimed ==
    ret.op = "getLastStatus" =>
        \A i \in DOMAIN ret.history :
            IF ret.history[i].completed = 0 THEN ~CachedStatus(ret.value.modules[i])
            ELSE /\ CachedStatus(ret.value.modules[i])
                 /\ ret.value.modules[i].healthy = ReportedHealthy(ret.history[i].did)

----------------------------------------------------------------------------
(* One module whose check never settles.  A run is started only while the   *)
(* predicates it may have to invoke are within the budget, so that nothing  *)
(* but the pending check can hold it up.                                    *)

Hanging == "terminal"

RespondingSettles ==
    \E i \in DOMAIN calls, did \in RunPredicates :
        /\ calls[i].name # Hanging
        /\ checkSettlesAt(i, did, MaxRunChecks)

RunStarts ==
    /\ calls = <<>>
    /\ Invocations + MaxRegistrations <= MaxRunChecks

NextHang ==
    \/ HealthLogger /\ UNCHANGED <<trackerVars, monitorVars, callVars, healthVars>>
    \/ registerModule(ModuleNames) /\ UNCHANGED <<trackerVars, mon, recorded, asyncs>>
    \/ RunStarts /\ checkAll(MaxRunChecks)
          /\ UNCHANGED <<trackerVars, mon, recorded, asyncs>>
    \/ RunStarts /\ getStatus(MaxRunChecks)
          /\ UNCHANGED <<trackerVars, mon, recorded, asyncs>>
    \/ RunStarts /\ periodicCheck(MaxRunChecks)
          /\ UNCHANGED <<trackerVars, mon, recorded, asyncs>>
    \/ RespondingSettles /\ UNCHANGED <<trackerVars, mon, recorded, asyncs>>
    \/ startPeriodicChecks /\ UNCHANGED <<trackerVars, mon, recorded, asyncs>>
    \/ stopPeriodicChecks /\ UNCHANGED <<trackerVars, mon, recorded, asyncs>>

InitHang ==
    /\ InitLogger({Undefined}, {Undefined}) /\ IdleTracker /\ IdleMonitor /\ IdleCalls
    /\ IdleHealth

\* every check of a responding module that is pending eventually settles
LiveHang ==
    InitHang /\ [][NextHang]_vars
        /\ WF_vars(RespondingSettles /\ UNCHANGED <<trackerVars, mon, recorded, asyncs>>)

\* the run in flight, or the one that has returned, has evaluated the module
EvaluatedByRun(name) ==
    \/ \E i \in DOMAIN calls : name \in EvaluatedNames(calls[i].seen)
    \/ /\ ret.op \in {"checkAll", "getStatus", "periodic"}
       /\ name \in EvaluatedNames(ret.did)

\* C23: while one module's check never resolves, a run in flight still
\* eventually evaluates every other registered module.
C23_OthersStillChecked ==
    \A name \in ModuleNames \ {Hanging} :
        (calls # <<>> /\ Registered(health, name)) ~> EvaluatedByRun(name)

----------------------------------------------------------------------------
(* Periodic runs and stopPeriodicChecks, in SpecStatus *)

\* the periodic callbacks suspended at a check, with what each has done so far
PeriodicRuns == SelectSeq(calls, LAMBDA c : c.op = "periodic")

\* C24: while periodic checks are stopped, no periodic run does anything: none
\* starts, and none that was in flight at the stop settles a check, invokes
\* the next predicate, updates a module or logs its warning.
C24_NoPeriodicWorkAfterStop ==
    [][health.intervalId = 0 => PeriodicRuns' = PeriodicRuns]_vars

----------------------------------------------------------------------------
(* The registry with a logger that writes warnings and errors to the log    *)
(* file, so that each warning shows as one more record in the file.         *)

RegistryLogger ==
    \/ globalLogger = NoLogger /\ initialize({WARN}, {{"file"}}, NoFault)
    \/ globalLogger # NoLogger /\ handle = NoLogger
          /\ createLogger({"health-check"}, {""}, {FALSE}, NoFault)

RegistryPredicates ==
    {did \in Predicates : did.value = [healthy |-> "true"] \/ did.does = "throws"}

NextRegistry ==
    \/ RegistryLogger /\ UNCHANGED <<trackerVars, monitorVars, callVars, healthVars>>
    \/ Logged < MaxRegistryLogs /\ registerModule(ModuleNames)
          /\ UNCHANGED <<trackerVars, mon, recorded, asyncs>>
    \/ unregisterModule(ModuleNames) /\ UNCHANGED <<trackerVars, mon, recorded, asyncs>>
    \/ Logged < MaxRegistryLogs /\ calls = <<>> /\ checkModuleCall(ModuleNames, MaxRunChecks)
          /\ UNCHANGED <<trackerVars, mon, recorded, asyncs>>
    \/ Logged < MaxRegistryLogs /\ checkSettles(RegistryPredicates, MaxRunChecks)
          /\ UNCHANGED <<trackerVars, mon, recorded, asyncs>>

InitRegistry ==
    /\ InitLogger({Undefined}, {Undefined}) /\ IdleTracker /\ IdleMonitor /\ IdleCalls
    /\ IdleHealth

SpecRegistry == InitRegistry /\ [][NextRegistry]_vars

EntriesNamed(this, name) == {i \in DOMAIN this.modules : this.modules[i].name = name}

\* what a step leaves of the entries and objects of the modules not named
OthersKept(name) ==
    /\ SelectSeq(health'.modules, LAMBDA e : e.name # name)
          = SelectSeq(health.modules, LAMBDA e : e.name # name)
    /\ \A ref \in DOMAIN heap : heap[ref].name # name => heap'[ref] = heap[ref]

\* C25: a registration leaves exactly one entry for the name, in the place of
\* the old one if there was one, bound to a new unchecked module object, logs
\* a warning exactly when the name was registered already, and leaves every
\* other entry as it was; the registry changes otherwise only by the removal
\* of the one entry unregisterModule names.
C25_RegistrationAsClaimed ==
    [][/\ Len(heap') > Len(heap) =>
            LET ref == Len(heap')
                name == heap'[ref].name
                known == Registered(health, name)
            IN  /\ ref = Len(heap) + 1
                /\ Cardinality(EntriesNamed(health', name)) = 1
                /\ known => EntriesNamed(health', name) = EntriesNamed(health, name)
                /\ health'.modules[EntryOf(health', name)].ref = ref
                /\ heap'[ref].lastCheck = NeverChecked
                /\ heap'[ref].lastStatus = NoStatus
                /\ heap'[ref].consecutiveFailures = 0
                /\ OthersKept(name)
                /\ Len(health'.modules) = Len(health.modules) + (IF known THEN 0 ELSE 1)
                /\ Logged' = Logged + (IF known THEN RecordSize ELSE 0)
       /\ (Len(heap') = Len(heap) /\ health'.modules # health.modules) =>
            \E name \in RegisteredNames(health) :
                /\ EntriesNamed(health', name) = {}
                /\ OthersKept(name)
                /\ heap' = heap]_vars

C25_Witness ==
    /\ Len(heap) = 2 /\ heap[1].name = heap[2].name
    /\ heap[1].consecutiveFailures = 1
    /\ Len(health.modules) = 1 /\ health.modules[1].ref = 2
    /\ Logged = 2
----------------------------------------------------------------------------
(* The four module-level singletons.  globals.objects holds every instance  *)
(* constructed, in construction order; a singleton variable holds the       *)
(* position of its instance, 0 for null.                                    *)

Kinds == {"logger", "tracker", "monitor", "healthCheck"}

\* `new Logger(config)`, `new ErrorTracker(config)`, `new PerformanceMonitor(config)`,
\* `new HealthCheckSystem(config)`; only the Logger's constructor touches the log directory
Construct(kind, config, f) ==
    CASE kind = "logger" -> LET n == Logger(config, f, 0) IN [object |-> n.logger, fs |-> n.fs]
      [] kind = "tracker" -> [object |-> ErrorTracker(config), fs |-> f]
      [] kind = "monitor" -> [object |-> PerformanceMonitor(config, now), fs |-> f]
      [] kind = "healthCheck" -> [object |-> HealthCheckSystem(config), fs |-> f]

\* what an accessor passes to the constructor: the environment's defaults for
\* the logger, no argument (config = {}) for the other three
AccessorConfig(kind) ==
    CASE kind = "logger" -> DefaultConfig("", FALSE)
      [] kind = "tracker" -> [enabled |-> "undefined", maxErrors |-> Undefined]
      [] kind = "monitor" -> [enabled |-> "undefined", sampleInterval |-> Undefined,
                              maxSamples |-> Undefined]
      [] kind = "healthCheck" -> [checkInterval |-> Undefined]

\* the configs the application passes to initialize
InitializeConfigs(kind) ==
    CASE kind = "logger" -> {[level |-> DEBUG, module |-> "", outputs |-> {"file"},
                              maxLogSize |-> Undefined, maxLogFiles |-> Undefined]}
      [] kind = "tracker" -> {[enabled |-> "undefined", maxErrors |-> 1]}
      [] kind = "monitor" -> {[enabled |-> "undefined", sampleInterval |-> Undefined,
                               maxSamples |-> 1]}
      [] kind = "healthCheck" -> {[checkInterval |-> 1000]}

\* `globalX = new X(config)`
newInstance(g, kind, config, f) ==
    LET c == Construct(kind, config, f)
    IN  [globals |-> [g EXCEPT !.objects = Append(@, [kind |-> kind, object |-> c.object]),
                               ![kind] = Len(g.objects) + 1],
         fs |-> c.fs]

\* the accessor that constructs an instance at every call
getInstanceAlways(g, kind, f) == newInstance(g, kind, AccessorConfig(kind), f)

\* getLogger / getTracker / getMonitor / getHealthCheck
getInstance(g, kind, f) ==
    IF g[kind] = 0 THEN newInstance(g, kind, AccessorConfig(kind), f)
    ELSE [globals |-> g, fs |-> f]

\* the module-level variable globalLogger as the earlier sections read it
GlobalLoggerOf(g) == IF g.logger = 0 THEN NoLogger ELSE g.objects[g.logger].object

Constructed == Len(globals.objects)

\* initialize(config) of one of the four modules
initializeSingleton(kinds) ==
    \E kind \in kinds : \E config \in InitializeConfigs(kind) :
        LET n == newInstance(globals, kind, config, fs)
        IN  /\ Constructed < MaxInstances
            /\ globals' = n.globals
            /\ globalLogger' = GlobalLoggerOf(n.globals)
            /\ fs' = n.fs
            /\ ret' = [op |-> "initialize", kind |-> kind, instance |-> n.globals[kind]]
            /\ UNCHANGED <<cfg, handle, last, trackerVars, monitorVars, asyncs, healthVars>>

\* a call of one of the four accessors
accessorCall(kinds) ==
    \E kind \in kinds :
        LET a == getInstance(globals, kind, fs)
        IN  /\ globals[kind] = 0 => Constructed < MaxInstances
            /\ globals' = a.globals
            /\ globalLogger' = GlobalLoggerOf(a.globals)
            /\ fs' = a.fs
            /\ ret' = [op |-> "accessor", kind |-> kind, instance |-> a.globals[kind]]
            /\ UNCHANGED <<cfg, handle, last, trackerVars, monitorVars, asyncs, healthVars>>

\* the module-level createLogger(moduleName): getLogger().child(moduleName)
createLoggerOnGlobal(moduleSet) ==
    \E moduleName \in moduleSet :
        LET a == getInstance(globals, "logger", fs)
            this == a.globals.objects[a.globals.logger].object
            c == child(this, moduleName, a.fs, 0)
        IN  /\ globals.logger = 0 => Constructed < MaxInstances
            /\ globals' = a.globals
            /\ globalLogger' = GlobalLoggerOf(a.globals)
            /\ fs' = c.fs
            /\ handle' = c.logger
            /\ ret' = [op |-> "createLogger", kind |-> "logger", instance |-> a.globals.logger]
            /\ UNCHANGED <<cfg, last, trackerVars, monitorVars, asyncs, healthVars>>

\* the module-level getErrors(filter): getTracker().getErrors(filter)
getErrorsOnGlobal ==
    LET a == getInstance(globals, "tracker", fs)
        this == a.globals.objects[a.globals.tracker].object
    IN  /\ globals.tracker = 0 => Constructed < MaxInstances
        /\ globals' = a.globals
        /\ ret' = [op |-> "getErrors", kind |-> "tracker", instance |-> a.globals.tracker,
                   value |-> getErrors(this, [type |-> "", since |-> Undefined,
                                              limit |-> Undefined])]
        /\ UNCHANGED <<cfg, globalLogger, handle, fs, last, trackerVars, monitorVars, asyncs,
                       healthVars>>

\* the module-level recordMetric(name, value, metadata): getMonitor().recordMetric(...)
recordMetricOnGlobal(inputs) ==
    \E call \in inputs :
        LET a == getInstance(globals, "monitor", fs)
            ref == a.globals.monitor
            this == a.globals.objects[ref].object
        IN  /\ globals.monitor = 0 => Constructed < MaxInstances
            /\ \A name \in DOMAIN this.metrics.custom :
                  Len(this.metrics.custom[name]) < MaxSamplesCfg
            /\ globals' = [a.globals EXCEPT !.objects[ref].object =
                              recordMetric(this, call.name, call.value, call.metadata, now)]
            /\ ret' = [op |-> "recordMetric", kind |-> "monitor", instance |-> ref]
            /\ UNCHANGED <<cfg, globalLogger, handle, fs, last, trackerVars, monitorVars,
                           asyncs, healthVars>>

\* the module-level getLastStatus(): getHealthCheck().getLastStatus()
getLastStatusOnGlobal ==
    LET a == getInstance(globals, "healthCheck", fs)
        this == a.globals.objects[a.globals.healthCheck].object
    IN  /\ globals.healthCheck = 0 => Constructed < MaxInstances
        /\ globals' = a.globals
        /\ ret' = [op |-> "getLastStatus", kind |-> "healthCheck",
                   instance |-> a.globals.healthCheck,
                   value |-> getLastStatus(this, <<>>, now)]
        /\ UNCHANGED <<cfg, globalLogger, handle, fs, last, trackerVars, monitorVars, asyncs,
                       healthVars>>

NextSingletons ==
    \/ initializeSingleton(Kinds)
    \/ accessorCall(Kinds)
    \/ createLoggerOnGlobal({"terminal"})
    \/ getErrorsOnGlobal
    \/ recordMetricOnGlobal({call \in MetricInputs : call.name = "io"})
    \/ getLastStatusOnGlobal

InitSingletons ==
    /\ InitLogger({Undefined}, {Undefined}) /\ IdleTracker /\ IdleMonitor /\ IdleCalls
    /\ IdleHealth

SpecSingletons == InitSingletons /\ [][NextSingletons]_vars

\* the instances constructed by the step
Fresh == {ref \in DOMAIN globals'.objects : ref > Constructed}

\* every instance that existed is what it was
OldInstancesKept == \A ref \in DOMAIN globals.objects : globals'.objects[ref] = globals.objects[ref]

\* C26: for each of the four singletons, initialize(config) constructs an
\* instance from config and makes it the singleton; an accessor or a
\* module-level function constructs the default instance when the singleton is
\* null and otherwise constructs nothing, and acts on the instance the
\* singleton then holds, which only the module-level function may change, and
\* only that one; a singleton changes at no other occasion, and createLogger
\* returns a child with the threshold and destinations of the global logger.
C26_SingletonsAsClaimed ==
    [][ LET kind == ret'.kind
            ref == globals'[kind]
        IN  /\ \A other \in Kinds \ {kind} : globals'[other] = globals[other]
            /\ ret'.instance = ref
            /\ ref \in DOMAIN globals'.objects
            /\ globals'.objects[ref].kind = kind
            /\ IF ret'.op = "initialize"
               THEN /\ Fresh = {ref}
                    /\ OldInstancesKept
                    /\ \E config \in InitializeConfigs(kind) :
                          globals'.objects[ref].object = Construct(kind, config, fs).object
               ELSE /\ IF globals[kind] = 0
                       THEN /\ Fresh = {ref}
                            /\ ret'.op = "accessor" =>
                                  globals'.objects[ref].object
                                      = Construct(kind, AccessorConfig(kind), fs).object
                       ELSE Fresh = {} /\ ref = globals[kind]
                    /\ \A old \in DOMAIN globals.objects :
                          (old # ref \/ ret'.op # "recordMetric")
                              => globals'.objects[old] = globals.objects[old]
                    /\ ret'.op = "createLogger" =>
                          /\ handle'.level = globals'.objects[ref].object.level
                          /\ handle'.outputs = globals'.objects[ref].object.outputs
                    /\ ret'.op = "getErrors" => ret'.value = globals'.objects[ref].object.errors
      ]_vars

\* a monitor took a sample, initialize replaced it, and the module-level
\* recordMetric recorded into the second monitor
C26_Witness ==
    /\ ret.op = "recordMetric"
    /\ ret.instance = 2
    /\ globals.monitor = 2
    /\ globals.objects[1].kind = "monitor"
    /\ globals.objects[1].object.metrics.custom # NoSeries
    /\ globals.objects[2].object.metrics.custom # NoSeries
----------------------------------------------------------------------------
(* The default logger: created by the first getLogger of a process whose    *)
(* environment holds LOG_LEVEL and NODE_ENV; ret keeps that environment.    *)

\* process.env.LOG_LEVEL: unset, or a level name in lower, capitalised or upper case
LogLevelNames3 ==
    {"", "error", "Error", "ERROR", "warn", "Warn", "WARN", "info", "Info", "INFO",
     "debug", "Debug", "DEBUG", "trace", "Trace", "TRACE"}

NextDefaults ==
    \/ \E envLogLevel \in LogLevelNames3, production \in BOOLEAN :
          /\ globalLogger = NoLogger
          /\ getLogger({envLogLevel}, {production}, NoFault)
          /\ ret' = [op |-> "getLogger", LOG_LEVEL |-> envLogLevel, production |-> production]
          /\ UNCHANGED <<trackerVars, monitorVars, asyncs, healthVars>>
    \/ log({globalLogger}, Levels, {EmptyMeta}, {FALSE})
          /\ UNCHANGED <<trackerVars, monitorVars, callVars, healthVars>>

SpecDefaults == InitLevels /\ [][NextDefaults]_vars

\* the level a LOG_LEVEL name stands for
NamedLevel(name) == LogLevelOf(toUpperCase(name))

\* C27: the default logger's threshold is the level LOG_LEVEL names, in any
\* letter case, and INFO when LOG_LEVEL is unset; it writes to the file only
\* when NODE_ENV is "production" and to console and file otherwise.
C27_DefaultLoggerAsClaimed ==
    globalLogger # NoLogger =>
        /\ globalLogger.level = IF ret.LOG_LEVEL = "" THEN INFO ELSE NamedLevel(ret.LOG_LEVEL)
        /\ globalLogger.outputs = IF ret.production THEN {"file"} ELSE {"console", "file"}
----------------------------------------------------------------------------
(* ErrorTracker.start.  A listener is kept as the event it listens for and  *)
(* the type its handler gives the error.                                    *)

Listener(event, type) == [event |-> event, type |-> type]

WindowListeners == << Listener("error", "uncaught-error"),
                      Listener("unhandledrejection", "unhandled-promise") >>

ProcessListeners == << Listener("uncaughtException", "uncaught-exception"),
                       Listener("unhandledRejection", "unhandled-rejection") >>

\* addEventListener / process.on for each listener, on a surface that exists
addListeners(surface, listeners) ==
    IF surface.exists THEN [surface EXCEPT !.listeners = @ \o listeners] ELSE surface

\* the variant that reaches the process handlers only inside a window
installHandlersInWindow(this, g) ==
    IF ~this.enabled \/ ~g.window.exists THEN g
    ELSE [g EXCEPT !.window = addListeners(@, WindowListeners),
                   !.process = addListeners(@, ProcessListeners)]

\* start() from its first line on: the globals it leaves
installHandlers(this, g) ==
    IF ~this.enabled THEN g
    ELSE [g EXCEPT !.window = addListeners(@, WindowListeners),
                   !.process = addListeners(@, ProcessListeners)]

Starts == Len(globals.window.listeners) + Len(globals.process.listeners)

startTracking ==
    LET text == IF tracker.enabled THEN "Starting error tracking" ELSE "Error tracking disabled"
        w == write(handle, INFO, text, EmptyMeta, now, fs, FALSE)
    IN  /\ handle # NoLogger
        /\ Starts < 4 * MaxStarts
        /\ Logged < 2 * MaxStarts
        /\ fs' = w.fs
        /\ last' = WriteOutcome(handle, INFO, text, EmptyMeta, now, w)
        /\ globals' = installHandlers(tracker, globals)
        /\ ret' = [op |-> "start", raised |-> w.raised]
        /\ UNCHANGED <<cfg, globalLogger, handle, trackerVars, monitorVars, asyncs, healthVars>>

NextHandlers ==
    \/ handle = NoLogger /\ createLogger({"error-tracker"}, {""}, {FALSE}, NoFault)
          /\ UNCHANGED <<trackerVars, monitorVars, callVars, healthVars>>
    \/ trackErrorIn(1, MaxStarts) /\ ret' = NoReturn
          /\ UNCHANGED <<monitorVars, asyncs, healthVars>>
    \/ startTracking

InitHandlers ==
    /\ cfg = [maxLogSize |-> Undefined, maxLogFiles |-> Undefined]
    /\ \E window \in BOOLEAN, process \in BOOLEAN :
          globals = [NoGlobals EXCEPT !.window.exists = window, !.process.exists = process]
    /\ globalLogger = NoLogger
    /\ handle = NoLogger
    /\ fs = [dir |-> FALSE, active |-> NoFile, gens |-> [i \in {} |-> 0], rotations |-> 0]
    /\ last = Outcome("none", FALSE, FALSE, FALSE, NoLogger)
    /\ InitTracker /\ IdleMonitor /\ IdleCalls /\ IdleHealth

SpecHandlers == InitHandlers /\ [][NextHandlers]_vars

\* the listeners a step added to a surface
Added(surface, listeners) ==
    /\ globals'[surface].exists = globals[surface].exists
    /\ globals'[surface].listeners = globals[surface].listeners \o listeners

\* C28: start() leaves the tracker as it was and raises nothing; disabled, it
\* adds no listener; enabled, it adds the two window listeners exactly when
\* window exists and the two process listeners exactly when process exists.
C28_StartAsClaimed ==
    [][ ret'.op = "start" =>
          /\ tracker' = tracker
          /\ ~ret'.raised
          /\ IF ~tracker.enabled THEN globals' = globals
             ELSE /\ Added("window", IF globals.window.exists THEN WindowListeners ELSE <<>>)
                  /\ Added("process", IF globals.process.exists THEN ProcessListeners ELSE <<>>)
                  /\ \A name \in DOMAIN globals \ {"window", "process"} :
                        globals'[name] = globals[name]
      ]_vars

\* started without a window: the process handlers are installed, and an error
\* was tracked before
C28_Witness ==
    /\ ret.op = "start"
    /\ tracker.enabled
    /\ tracker.errors # <<>>
    /\ ~globals.window.exists
    /\ globals.window.listeners = <<>>
    /\ globals.process.listeners = ProcessListeners
----------------------------------------------------------------------------
(* mark and measureBetween.  The performance timeline keeps its marks in    *)
(* the order made and hands out its measures ordered by start time.         *)

MarkNames == {"terminal-start", "terminal-ready"}

BetweenNames == {"terminal-init-time"}

Marked(timeline, name) == \E i \in DOMAIN timeline.marks : timeline.marks[i].name = name

\* the start time of the most recent mark of that name
MarkTime(timeline, name) ==
    LET i == CHOOSE i \in DOMAIN timeline.marks :
                 /\ timeline.marks[i].name = name
                 /\ \A j \in DOMAIN timeline.marks : timeline.marks[j].name = name => j <= i
    IN  timeline.marks[i].startTime

\* performance.mark(name) at time
performanceMark(timeline, name, time) ==
    [timeline EXCEPT !.marks = Append(@, [name |-> name, startTime |-> time])]

\* performance.measure(name, startMark, endMark): raises for a mark that is missing
performanceMeasure(timeline, name, startMark, endMark) ==
    IF ~Marked(timeline, startMark) \/ ~Marked(timeline, endMark)
    THEN [raised |-> TRUE, timeline |-> timeline]
    ELSE [raised |-> FALSE,
          timeline |-> [timeline EXCEPT !.measures =
                          Append(@, [name |-> name,
                                     startTime |-> MarkTime(timeline, startMark),
                                     duration |-> MarkTime(timeline, endMark)
                                                     - MarkTime(timeline, startMark)])]]

\* performance.getEntriesByName(name, 'measure'): by start time, then in the order made
getEntriesByName(timeline, name) ==
    LET named == SelectSeq(timeline.measures, LAMBDA e : e.name = name)
        before(i, j) == \/ named[i].startTime < named[j].startTime
                        \/ named[i].startTime = named[j].startTime /\ i < j
        place(i) == 1 + Cardinality({j \in DOMAIN named : before(j, i)})
    IN  [k \in DOMAIN named |-> named[CHOOSE i \in DOMAIN named : place(i) = k]]

mark(names) ==
    \E name \in names :
        /\ Len(globals.performance.marks) < MaxMarks
        /\ globals' = [globals EXCEPT !.performance = performanceMark(@, name, now)]
        /\ now' = now + 1
        /\ ret' = [op |-> "mark", name |-> name]
        /\ UNCHANGED <<cfg, globalLogger, handle, fs, last, tracker, trackLog, monitorVars,
                       asyncs, healthVars>>

measureBetween(names, marks) ==
    \E name \in names, startMark \in marks, endMark \in marks :
        LET m == performanceMeasure(globals.performance, name, startMark, endMark)
            entry == getEntriesByName(m.timeline, name)[1]
            meta == [name |-> name, error |-> "startMark or endMark does not exist"]
            w == write(handle, ERROR, "Failed to measure between marks", meta, now, fs, FALSE)
        IN  /\ handle # NoLogger
            /\ Len(globals.performance.measures) < MaxBetween
            /\ Logged < MaxMonitorLogs
            /\ globals' = [globals EXCEPT !.performance = m.timeline]
            /\ ret' = [op |-> "measureBetween", name |-> name, startMark |-> startMark,
                       endMark |-> endMark, raised |-> m.raised /\ w.raised]
            /\ IF m.raised
               THEN /\ fs' = w.fs
                    /\ last' = WriteOutcome(handle, ERROR, "Failed to measure between marks",
                                            meta, now, w)
                    /\ mon' = mon
               ELSE /\ mon' = recordMetric(mon, name, entry.duration, EmptyMeta, now)
                    /\ UNCHANGED <<fs, last>>
            /\ UNCHANGED <<cfg, globalLogger, handle, trackerVars, loop, recorded, asyncs,
                           healthVars>>

NextMarks ==
    \/ handle = NoLogger /\ createLogger({"performance-monitor"}, {""}, {FALSE}, NoFault)
          /\ UNCHANGED <<trackerVars, monitorVars, callVars, healthVars>>
    \/ mark(MarkNames)
    \/ measureBetween(BetweenNames, MarkNames)

InitMarks ==
    /\ InitLogger({Undefined}, {Undefined}) /\ IdleTracker /\ IdleCalls /\ IdleHealth
    /\ \E e \in {"undefined", "false"} :
          mon = PerformanceMonitor([enabled |-> e, sampleInterval |-> Undefined,
                                    maxSamples |-> Undefined], 0)
    /\ loop = [intervals |-> [id \in {} |-> ""], frames |-> {}, memory |-> FALSE]
    /\ recorded = NothingRecorded

SpecMarks == InitMarks /\ [][NextMarks]_vars

\* C29: a measureBetween whose two marks exist appends one sample to the
\* series of its name, valued the time from its start mark to its end mark,
\* whatever was measured under that name before; with a mark missing it
\* records nothing; it never raises.
C29_MeasureBetweenAsClaimed ==
    [][ ret'.op = "measureBetween" =>
          LET timeline == globals.performance
              series == SeriesNamed(mon, ret'.name)
          IN  /\ ~ret'.raised
              /\ IF Marked(timeline, ret'.startMark) /\ Marked(timeline, ret'.endMark)
                 THEN /\ Len(SeriesNamed(mon', ret'.name)) = Len(series) + 1
                      /\ SubSeq(SeriesNamed(mon', ret'.name), 1, Len(series)) = series
                      /\ SeriesNamed(mon', ret'.name)[Len(series) + 1].value
                            = MarkTime(timeline, ret'.endMark)
                                  - MarkTime(timeline, ret'.startMark)
                 ELSE mon' = mon
      ]_vars
----------------------------------------------------------------------------
(* Rotation and writes *)

FilesKept == fs'.gens = fs.gens /\ fs'.rotations = fs.rotations

----------------------------------------------------------------------------
(* Frames.  The monitor's logger drops info records, so that start and stop *)
(* may alternate freely; time also passes while no frame is pending.  ret   *)
(* keeps the time of the last start() or, if later, of the last fps sample, *)
(* and the frames ticked since.                                             *)

FrameSteps == {0, 400, 700}        \* milliseconds from one frame callback to the next

IdleSteps == {700}                 \* milliseconds passing with no callback

FramesLogger ==
    \/ globalLogger = NoLogger /\ initialize({WARN}, {{"file"}}, NoFault)
    \/ globalLogger # NoLogger /\ handle = NoLogger
          /\ createLogger({"performance-monitor"}, {""}, {FALSE}, NoFault)

\* the clock advances
elapse(deltas, horizon) ==
    \E d \in deltas :
        /\ now + d <= horizon
        /\ now' = now + d
        /\ UNCHANGED <<loggerVars, tracker, trackLog, monitorVars, asyncs, healthVars>>

NextFrames ==
    \/ FramesLogger /\ UNCHANGED <<trackerVars, monitorVars, callVars, healthVars>>
    \/ loop.frames = {} /\ start
          /\ ret' = [op |-> "start", since |-> now, ticks |-> 0]
          /\ UNCHANGED <<asyncs, healthVars>>
    \/ loop.frames # {} /\ stop
          /\ ret' = [ret EXCEPT !.op = "stop"]
          /\ UNCHANGED <<asyncs, healthVars>>
    \/ mon.frameCount < MaxFrames /\ measureFPSIn(FrameSteps, MaxFrameTime)
          /\ ret' = (IF Len(recorded'.fps) > Len(recorded.fps)
                      THEN [op |-> "measureFPS", since |-> now', ticks |-> 0]
                      ELSE [op |-> "measureFPS", since |-> ret.since, ticks |-> ret.ticks + 1])
          /\ UNCHANGED <<asyncs, healthVars>>
    \/ handle # NoLogger /\ elapse(IdleSteps, MaxFrameTime)
          /\ ret' = [ret EXCEPT !.op = "elapse"]

InitFrames ==
    /\ InitLogger({Undefined}, {Undefined}) /\ IdleTracker /\ IdleCalls /\ IdleHealth
    /\ mon = PerformanceMonitor([enabled |-> "undefined", sampleInterval |-> Undefined,
                                 maxSamples |-> MaxSamplesCfg], 0)
    /\ loop = [intervals |-> [id \in {} |-> ""], frames |-> {}, memory |-> FALSE]
    /\ recorded = NothingRecorded

SpecFrames == InitFrames /\ [][NextFrames]_vars

\* v is x / y rounded to the nearest integer, halves upwards
Nearest(v, x, y) == 2 * v * y - y <= 2 * x /\ 2 * x < 2 * v * y + y

\* C31: a tick counts one frame; it emits an fps sample exactly when 1000 ms
\* or more have passed since the baseline; the sample is
\* round(frameCount * 1000 / elapsed); the counter returns to 0 and the
\* baseline becomes the tick's time on emission, and both stay otherwise.
C31_FpsAlgorithm ==
    [][ ret'.op = "measureFPS" =>
          LET elapsed == now' - mon.lastFrameTime
              frames == mon.frameCount + 1
          IN  /\ now' >= now
              /\ IF elapsed >= 1000
                 THEN /\ Len(recorded'.fps) = Len(recorded.fps) + 1
                      /\ SubSeq(recorded'.fps, 1, Len(recorded.fps)) = recorded.fps
                      /\ Nearest(recorded'.fps[Len(recorded'.fps)].value, frames * 1000, elapsed)
                      /\ mon'.frameCount = 0
                      /\ mon'.lastFrameTime = now'
                 ELSE /\ recorded' = recorded
                      /\ mon'.metrics = mon.metrics
                      /\ mon'.frameCount = frames
                      /\ mon'.lastFrameTime = mon.lastFrameTime
      ]_vars

\* one frame 1100 ms after the baseline: 1 * 1000 / 1100 rounds up to 1; the
\* next frame, 400 ms later, emits nothing
C31_Witness ==
    /\ ret.op = "measureFPS"
    /\ now = 1500
    /\ mon.lastFrameTime = 1100
    /\ mon.frameCount = 1
    /\ Len(recorded.fps) = 1
    /\ recorded.fps[1].value = 1
    /\ recorded.fps[1].timestamp = 1100
\* C40: an fps sample is computed from the frames ticked and the time passed
\* since the last start(), or since the previous sample if that is later:
\* nothing from before the start() enters it.
C40_SamplesSinceStartOnly ==
    [][ (ret'.op = "measureFPS" /\ Len(recorded'.fps) > Len(recorded.fps)) =>
          Nearest(recorded'.fps[Len(recorded'.fps)].value,
                  (ret.ticks + 1) * 1000, now' - ret.since)
      ]_vars
----------------------------------------------------------------------------
(* Runs with the registry changing under them: modules are registered,      *)
(* replaced and unregistered while checkModule, checkAll and getStatus are  *)
(* suspended at a predicate.                                                *)

InterleavedPredicates ==
    {did \in Predicates : \/ did.value \in {[healthy |-> "true"], [healthy |-> "false"]}
                          \/ did = [does |-> "rejects", value |-> NotAnObject]}

NextRuns ==
    \/ HealthLogger /\ UNCHANGED <<trackerVars, monitorVars, callVars, healthVars>>
    \/ registerModule(ModuleNames) /\ UNCHANGED <<trackerVars, mon, recorded, asyncs>>
    \/ unregisterModule(ModuleNames) /\ UNCHANGED <<trackerVars, mon, recorded, asyncs>>
    \/ calls = <<>> /\ checkModuleCall(ModuleNames, MaxRunChecks)
          /\ UNCHANGED <<trackerVars, mon, recorded, asyncs>>
    \/ calls = <<>> /\ checkAll(MaxRunChecks)
          /\ UNCHANGED <<trackerVars, mon, recorded, asyncs>>
    \/ calls = <<>> /\ getStatus(MaxRunChecks)
          /\ UNCHANGED <<trackerVars, mon, recorded, asyncs>>
    \/ checkSettles(InterleavedPredicates, MaxRunChecks)
          /\ UNCHANGED <<trackerVars, mon, recorded, asyncs>>

InitRuns ==
    /\ InitLogger({Undefined}, {Undefined}) /\ IdleTracker /\ IdleMonitor /\ IdleCalls
    /\ IdleHealth

SpecRuns == InitRuns /\ [][NextRuns]_vars

\* the step in which a checkAll or getStatus run returns to its caller
RunReturns ==
    /\ Len(calls') < Len(calls)
    /\ ret'.op \in {"checkAll", "getStatus"}
    /\ ~ret'.raised

C34_SummaryConsistent ==
    (ret.op = "getStatus" /\ ~ret.raised) =>
        /\ ret.value.healthyModules + ret.value.unhealthyModules = ret.value.totalModules
        /\ ret.value.totalModules = Len(ret.value.modules)
        /\ \A i \in DOMAIN ret.value.modules : ret.value.modules[i].name \in ret.registered
\* a module object no check has touched
Unchecked(module) ==
    /\ module.lastCheck = NeverChecked
    /\ module.lastStatus = NoStatus
    /\ module.consecutiveFailures = 0

\* the module objects whose check settles in the step
Completing == {ref \in DOMAIN healthLog : healthLog'[ref].completed > healthLog[ref].completed}

\* the module objects the Map holds
Current == {health.modules[i].ref : i \in DOMAIN health.modules}

----------------------------------------------------------------------------
(* The periodic timer of one registry; its callback runs whenever the timer   *)
(* fires, whether or not an earlier run is still suspended at a predicate.   *)

\* the interval timers startPeriodicChecks has set and nothing has cleared
HealthTimers == {id \in DOMAIN loop.intervals : loop.intervals[id] = "health-check"}

\* the health-check module's logger, writing to the log file
HealthFileLogger ==
    \/ globalLogger = NoLogger /\ initialize({Undefined}, {{"file"}}, NoFault)
    \/ globalLogger # NoLogger /\ handle = NoLogger
          /\ createLogger({"health-check"}, {""}, {FALSE}, NoFault)

NextPeriodic ==
    \/ HealthFileLogger /\ UNCHANGED <<trackerVars, monitorVars, callVars, healthVars>>
    \/ Logged < MaxTimerLogs /\ registerModule(ModuleNames) /\ UNCHANGED <<trackerVars, mon, recorded, asyncs>>
    \/ Logged < MaxTimerLogs /\ startPeriodicChecks /\ UNCHANGED <<trackerVars, mon, recorded, asyncs>>
    \/ Logged < MaxTimerLogs /\ stopPeriodicChecks /\ UNCHANGED <<trackerVars, mon, recorded, asyncs>>
    \/ Logged < MaxTimerLogs /\ periodicCheck(MaxRunChecks)
          /\ UNCHANGED <<trackerVars, mon, recorded, asyncs>>
    \/ Logged < MaxTimerLogs /\ checkSettles(RunPredicates, MaxRunChecks)
          /\ UNCHANGED <<trackerVars, mon, recorded, asyncs>>

SpecPeriodic == InitStatus /\ [][NextPeriodic]_vars

\* a step of startPeriodicChecks or stopPeriodicChecks: no logger is set up, no
\* module registered, no check invoked or settled
TimerCall == UNCHANGED <<globalLogger, handle, heap, calls, healthLog, ret>>

\* C33: at most one periodic timer of the registry is active, and it is the one
\* intervalId names; none is active while intervalId is null, which is the
\* state stopPeriodicChecks leaves; startPeriodicChecks with a timer running
\* writes one record and sets and clears no timer; stopPeriodicChecks with none
\* running changes nothing.
C33_OnePeriodicTimer ==
    /\ [](/\ Cardinality(HealthTimers) <= 1
          /\ health.intervalId = 0 => HealthTimers = {}
          /\ health.intervalId # 0 => HealthTimers = {health.intervalId})
    /\ [][(TimerCall /\ health.intervalId # 0 /\ health'.intervalId # 0) =>
            /\ loop' = loop /\ health' = health
            /\ Logged' = Logged + RecordSize]_vars
    /\ [][(TimerCall /\ health.intervalId = 0 /\ health'.intervalId = 0) =>
            UNCHANGED <<loop, health, fs>>]_vars

\* startPeriodicChecks called twice in a row: two records written (the start
\* and the warning), one timer
C33_Witness ==
    /\ ret = NoReturn /\ heap = <<>>
    /\ health.intervalId # 0
    /\ Cardinality(HealthTimers) = 1
    /\ Logged = 2 * RecordSize

\* C36: at most one periodic run is in progress at any time, and no two
\* periodic runs have a predicate of the same module in flight.
C36_OnePeriodicRun ==
    /\ Len(PeriodicRuns) <= 1
    /\ \A i, j \in DOMAIN PeriodicRuns :
          i # j => PeriodicRuns[i].ref # PeriodicRuns[j].ref

----------------------------------------------------------------------------
(* The frequency map against the bounded history *)

\* the records with message m the history holds
Retained(m) == Cardinality({i \in DOMAIN tracker.errors : tracker.errors[i].message = m})

RECURSIVE TotalCount(_)
TotalCount(top) == IF top = <<>> THEN 0 ELSE Head(top).count + TotalCount(Tail(top))

\* C39: for every message, errorCounts holds the number of records with that
\* message retained in the history, and the counts of topErrors sum to at most
\* totalErrors.
C39_CountsMatchHistory ==
    /\ \A m \in TrackedMessages : CountOf(m) = Retained(m)
    /\ TotalCount(getErrorSummary(tracker).topErrors) <= getErrorSummary(tracker).totalErrors

----------------------------------------------------------------------------
(* Uncaught failures delivered to the listeners start() has added.  A value *)
(* thrown is null, or an object with a message and a stack.                 *)

Uncaught(null, message, stack) == [null |-> null, message |-> message, stack |-> stack]

Failures ==
    {[surface |-> "window", event |-> "error",
      thrown |-> Uncaught(FALSE, "Script error", "at onClick")],
     [surface |-> "window", event |-> "unhandledrejection",
      thrown |-> Uncaught(FALSE, "Connection lost", "at connect")],
     [surface |-> "process", event |-> "uncaughtException",
      thrown |-> Uncaught(FALSE, "Connection lost", "at connect")],
     [surface |-> "process", event |-> "uncaughtException",
      thrown |-> Uncaught(TRUE, "", "")],
     [surface |-> "process", event |-> "unhandledRejection",
      thrown |-> Uncaught(FALSE, "Connection lost", "at connect")]}

\* the listener of uncaughtException reads error.message of the value thrown
listenerRaises(listener, thrown) == listener.event = "uncaughtException" /\ thrown.null

\* the object a listener passes to handleGlobalError: the rejection listeners
\* pass reason and promise, and no message or stack
errorInfo(listener, thrown) ==
    IF listener.event \in {"error", "uncaughtException"}
    THEN [message |-> thrown.message, string |-> "[object Object]",
          stack |-> thrown.stack, type |-> listener.type]
    ELSE [message |-> "", string |-> "[object Object]", stack |-> "", type |-> listener.type]

\* handleGlobalError(errorInfo): the tracker after it and the records it logs
handleGlobalError(this, info, time) ==
    LET rec == errorRecord(info, EmptyMeta, time)
        next == trackErrorCall(this, info, EmptyMeta, time)
    IN  [tracker |-> next,
         records |-> IF this.enabled THEN << rec >> ELSE <<>>,
         logs |-> (IF this.enabled
                   THEN << LogRecord(ERROR, "Error tracked",
                                     [type |-> rec.type, message |-> rec.message,
                                      count |-> ToString(MapGet(next.errorCounts,
                                                                rec.message))]) >>
                   ELSE <<>>)
                  \o << LogRecord(ERROR, "Global error caught",
                                  [type |-> info.type, message |-> info.message]) >>]

\* the listeners of one event called in the order they were added
RECURSIVE handleEach(_, _, _, _)
handleEach(this, listeners, thrown, time) ==
    IF listeners = <<>> THEN [tracker |-> this, records |-> <<>>, logs |-> <<>>]
    ELSE LET first == handleGlobalError(this, errorInfo(Head(listeners), thrown), time)
             rest == handleEach(first.tracker, Tail(listeners), thrown, time)
         IN  [tracker |-> rest.tracker,
              records |-> first.records \o rest.records,
              logs |-> first.logs \o rest.logs]

\* an uncaught failure reaches a surface; a listener that raises ends the
\* delivery
deliver(failures) ==
    \E f \in failures :
        LET listeners == SelectSeq(globals[f.surface].listeners,
                                   LAMBDA l : l.event = f.event)
            raises == listeners # <<>> /\ listenerRaises(listeners[1], f.thrown)
            done == handleEach(tracker, IF raises THEN <<>> ELSE listeners, f.thrown, now)
        IN  /\ handle # NoLogger
            /\ globals[f.surface].exists
            /\ Len(trackLog) < MaxDelivered
            /\ tracker' = done.tracker
            /\ trackLog' = trackLog \o done.records
            /\ fs' = fsAfter(done.logs, fs)
            /\ ret' = [op |-> "deliver", raised |-> raises, event |-> f.event,
                       listeners |-> Len(listeners)]
            /\ UNCHANGED <<cfg, globals, globalLogger, handle, last, now,
                           monitorVars, asyncs, healthVars>>

NextFailures ==
    \/ handle = NoLogger /\ createLogger({"error-tracker"}, {""}, {FALSE}, NoFault)
          /\ UNCHANGED <<trackerVars, monitorVars, callVars, healthVars>>
    \/ startTracking
    \/ deliver(Failures)

SpecFailures == InitHandlers /\ [][NextFailures]_vars

\* the type the listener of an event gives the error
TypeFor(event) ==
    LET all == WindowListeners \o ProcessListeners
    IN  all[CHOOSE i \in DOMAIN all : all[i].event = event].type

\* C38: however many times start() was called on an enabled tracker, a failure
\* delivered on a surface with listeners appends exactly one record, of that
\* surface's type, to the history (evicting the oldest when full), raises one
\* count by one and leaves the others, and no handler raises.
C38_OneRecordPerFailure ==
    [][ (ret'.op = "deliver" /\ ret'.listeners > 0) =>
          LET n == Len(tracker'.errors)
          IN  /\ ~ret'.raised
              /\ n >= 1
              /\ tracker'.errors[n].type = TypeFor(ret'.event)
              /\ tracker'.errors =
                    Last(Append(tracker.errors, tracker'.errors[n]), tracker.maxErrors)
              /\ TotalCount(tracker'.errorCounts) = TotalCount(tracker.errorCounts) + 1
      ]_vars

----------------------------------------------------------------------------
(* A started monitor or registry replaced by initialize.  mon and health    *)
(* are the instances the module-level functions reach (globalMonitor,       *)
(* globalHealthCheck); the timers and frame callbacks of an instance that   *)
(* was replaced stay with the event loop.                                   *)

\* initialize(config) of the monitor or the health-check module
initializeStarted(kinds) ==
    \E kind \in kinds : \E config \in InitializeConfigs(kind) :
        LET n == newInstance(globals, kind, config, fs)
            object == n.globals.objects[n.globals[kind]].object
        IN  /\ Constructed < MaxInstances
            /\ globals' = n.globals
            /\ mon' = IF kind = "monitor" THEN object ELSE mon
            /\ health' = IF kind = "healthCheck" THEN object ELSE health
            /\ ret' = [op |-> "initialize"]
            /\ UNCHANGED <<cfg, globalLogger, handle, fs, last, trackerVars, loop, recorded,
                           asyncs, heap, calls, healthLog>>

OfMonitor == handle # NoLogger /\ handle.module = "performance-monitor"

OfHealthCheck == handle # NoLogger /\ handle.module = "health-check"

NextReplaced ==
    \/ handle = NoLogger
          /\ createLogger({"performance-monitor", "health-check"}, {""}, {FALSE}, NoFault)
          /\ UNCHANGED <<trackerVars, monitorVars, callVars, healthVars>>
    \/ OfMonitor /\ start /\ ret' = [op |-> "start"] /\ UNCHANGED <<asyncs, healthVars>>
    \/ OfMonitor /\ stop /\ ret' = [op |-> "stop"] /\ UNCHANGED <<asyncs, healthVars>>
    \/ OfMonitor /\ initializeStarted({"monitor"})
    \/ OfHealthCheck /\ Logged < MaxTimerLogs /\ startPeriodicChecks
          /\ UNCHANGED <<trackerVars, mon, recorded, asyncs>>
    \/ OfHealthCheck /\ stopPeriodicChecks
          /\ UNCHANGED <<trackerVars, mon, recorded, asyncs>>
    \/ OfHealthCheck /\ initializeStarted({"healthCheck"})

SpecReplaced == InitTimers /\ [][NextReplaced]_vars

\* C37: once the module-level stop() has returned, no frame callback and no
\* interval of a monitor is scheduled, whichever instance started it; and while
\* the current registry has no timer (the state stopPeriodicChecks leaves, and
\* leaves alone), no periodic timer of a registry is scheduled.
C37_NoOrphanedWork ==
    /\ ret.op = "stop" =>
          /\ loop.frames = {}
          /\ \A id \in DOMAIN loop.intervals : loop.intervals[id] \notin {"memory", "summary"}
    /\ (OfHealthCheck /\ health.intervalId = 0) => HealthTimers = {}

====
